---- MODULE Spec2Model ----
(***************************************************************************)
(* InvoiceGeneratorPro: the calculation engine (utils/calculations.py),    *)
(* the Invoice aggregate (database/models.py), the invoice form            *)
(* (gui/invoice_form.py) and the record store (database/db_manager.py).    *)
(*                                                                         *)
(* Numbers.  A Python number that holds a short decimal is the record      *)
(* [t |-> "num", c, e], the decimal c * 10^(-e); this is what              *)
(* Decimal(str(x)) yields for a float x (str gives the shortest decimal    *)
(* that reads back as x).  A value that is not a number is "text"          *)
(* (such as "abc") or "none"; an exception in flight is t = "exc" with its *)
(* class name in x.                                                        *)
(***************************************************************************)
EXTENDS Integers, Naturals, Sequences, FiniteSets, TLC

VARIABLES op, argA, argB, argList, ret, retTotals,
          heap, invoice, formItems, formTax, formTotals, db, pdf, handler,
          dueOp, dueDate, dueTerms, dueRet,
          nextNumber, rows, numForm, numTyped, numHandler,
          settings, stored, editForm, editHandler,
          docOp, docInvoice, docTemplate, docOut,
          valOp, valArg, valCurrency, valRet,
          lineItems, savedLines, lineHandler, lineError,
          taxDefault, taxRows, taxForm, taxHandler,
          cliOp, cliArg, cliRet,
          itemOp, itemArgs, itemA, itemB,
          dbStore, storeIds, storeCall,
          odInvoices, odTable, odOp, odQuery,
          termsInput, termsVerdict, termsDue

calcVars == <<op, argA, argB, argList, ret, retTotals>>

invVars == <<heap, invoice, formItems, formTax, formTotals, db, pdf, handler>>

dueVars == <<dueOp, dueDate, dueTerms, dueRet>>

numVars == <<nextNumber, rows, numForm, numTyped, numHandler>>

editVars == <<settings, stored, editForm, editHandler>>

docVars == <<docOp, docInvoice, docTemplate, docOut>>

valVars == <<valOp, valArg, valCurrency, valRet>>

lineVars == <<lineItems, savedLines, lineHandler, lineError>>

taxVars == <<taxDefault, taxRows, taxForm, taxHandler>>

clientVars == <<cliOp, cliArg, cliRet>>

itemVars == <<itemOp, itemArgs, itemA, itemB>>

storeVars == <<dbStore, storeIds, storeCall>>

overdueVars == <<odInvoices, odTable, odOp, odQuery>>

termsVars == <<termsInput, termsVerdict, termsDue>>

vars == <<calcVars, invVars, dueVars, numVars, editVars, docVars, valVars, lineVars,
         taxVars,
         clientVars,
         itemVars,
         storeVars,
         overdueVars,
         termsVars>>

(* the variables that the payment terms leave alone                        *)
notTerms == <<calcVars, invVars, dueVars, numVars, editVars, docVars, valVars,
            lineVars, taxVars, clientVars, itemVars, storeVars, overdueVars>>

(* the variables that the overdue invoices leave alone                     *)
notOverdue == <<calcVars, invVars, dueVars, numVars, editVars, docVars, valVars,
            lineVars, taxVars, clientVars, itemVars, storeVars, termsVars>>

(* the variables that the calls of the record store leave alone            *)
notStore == <<calcVars, invVars, dueVars, numVars, editVars, docVars, valVars,
            lineVars, taxVars, clientVars, itemVars, overdueVars, termsVars>>

(* the variables that the construction of items leaves alone               *)
notItem == <<calcVars, invVars, dueVars, numVars, editVars, docVars, valVars,
            lineVars, taxVars, clientVars, storeVars, overdueVars, termsVars>>

(* the variables that a read of full_address leaves alone                  *)
notClient == <<calcVars, invVars, dueVars, numVars, editVars, docVars, valVars,
            lineVars, taxVars, itemVars, storeVars, overdueVars, termsVars>>

(* the variables that the tax rate of the stored invoices leaves alone     *)
notTax == <<calcVars, invVars, dueVars, numVars, editVars, docVars, valVars,
            lineVars, clientVars, itemVars, storeVars, overdueVars, termsVars>>

(* the variables that the calls of the engine leave alone                  *)
notCalc == <<invVars, dueVars, numVars, editVars, docVars, valVars,
            lineVars, taxVars, clientVars, itemVars, storeVars, overdueVars, termsVars>>

(* the variables that the handlers of the form and the windows leave alone *)
notInv == <<calcVars, dueVars, numVars, editVars, docVars, valVars,
            lineVars, taxVars, clientVars, itemVars, storeVars, overdueVars, termsVars>>

(* the variables that a call of calculate_due_date leaves alone            *)
notDue == <<calcVars, invVars, numVars, editVars, docVars, valVars,
            lineVars, taxVars, clientVars, itemVars, storeVars, overdueVars, termsVars>>

(* the variables that the numbering of invoices leaves alone               *)
notNum == <<calcVars, invVars, dueVars, editVars, docVars, valVars,
            lineVars, taxVars, clientVars, itemVars, storeVars, overdueVars, termsVars>>

(* the variables that editing an invoice and the settings leave alone      *)
notEdit == <<calcVars, invVars, dueVars, numVars, docVars, valVars,
            lineVars, taxVars, clientVars, itemVars, storeVars, overdueVars, termsVars>>

(* the variables that rendering a document leaves alone                    *)
notDoc == <<calcVars, invVars, dueVars, numVars, editVars, valVars,
            lineVars, taxVars, clientVars, itemVars, storeVars, overdueVars, termsVars>>

(* the variables that a call of a validator or a formatter leaves alone    *)
notVal == <<calcVars, invVars, dueVars, numVars, editVars, docVars,
            lineVars, taxVars, clientVars, itemVars, storeVars, overdueVars, termsVars>>

(* the variables that the item dialog and the save of its items leave      *)
(* alone                                                                   *)
notLine == <<calcVars, invVars, dueVars, numVars, editVars, docVars,
             valVars, taxVars, clientVars, itemVars, storeVars, overdueVars, termsVars>>

-----------------------------------------------------------------------------
(* Python values                                                           *)

Num(c, e) == [t |-> "num", c |-> c, e |-> e, x |-> ""]

Text == [t |-> "text", c |-> 0, e |-> 0, x |-> "abc"]

NoneVal == [t |-> "none", c |-> 0, e |-> 0, x |-> ""]

Raise(name) == [t |-> "exc", c |-> 0, e |-> 0, x |-> name]

IsExc(v) == v.t = "exc"

RECURSIVE Pow10(_)
Pow10(n) == IF n = 0 THEN 1 ELSE 10 * Pow10(n - 1)

Abs(n) == IF n < 0 THEN -n ELSE n

Max(a, b) == IF a >= b THEN a ELSE b

(* float(d) followed by str(): the shortest decimal of the same value      *)
RECURSIVE ToFloat(_)
ToFloat(d) ==
    IF d.e > 0 /\ d.c % 10 = 0 THEN ToFloat(Num(d.c \div 10, d.e - 1)) ELSE d

(* Decimal(str(v)): a number converts, anything else is a conversion       *)
(* syntax error, which the decimal module raises as InvalidOperation       *)
DecimalOfStr(v) == IF v.t = "num" THEN v ELSE Raise("InvalidOperation")

DMul(a, b) == Num(a.c * b.c, a.e + b.e)

DAdd(a, b) ==
    LET e == Max(a.e, b.e)
    IN  Num(a.c * Pow10(e - a.e) + b.c * Pow10(e - b.e), e)

(* quantize with ROUND_HALF_EVEN (banker's rounding) in place of           *)
(* ROUND_HALF_UP                                                           *)
QuantizeHalfEven(d) ==
    IF d.e <= 2 THEN Num(d.c * Pow10(2 - d.e), 2)
    ELSE LET u == Pow10(d.e - 2)
             q == Abs(d.c) \div u
             r == Abs(d.c) % u
             m == IF 2 * r > u \/ (2 * r = u /\ q % 2 = 1) THEN q + 1 ELSE q
         IN  Num(IF d.c < 0 THEN -m ELSE m, 2)

(* d.quantize(Decimal('0.01'), rounding=ROUND_HALF_UP): ties go away from  *)
(* zero                                                                    *)
QuantizeHalfUp(d) ==
    IF d.e <= 2 THEN Num(d.c * Pow10(2 - d.e), 2)
    ELSE LET u == Pow10(d.e - 2)
             q == Abs(d.c) \div u
             r == Abs(d.c) % u
             m == IF 2 * r >= u THEN q + 1 ELSE q
         IN  Num(IF d.c < 0 THEN -m ELSE m, 2)

(* try: ... except (ValueError, TypeError): return 0.0                     *)
ExceptValueTypeError(v) ==
    IF IsExc(v) /\ v.x \in {"ValueError", "TypeError"} THEN Num(0, 0) ELSE v

-----------------------------------------------------------------------------
(* CalculationEngine                                                       *)

calculate_line_total(quantity, rate) ==
    LET qty_decimal == DecimalOfStr(quantity)
        rate_decimal == DecimalOfStr(rate)
        body == IF IsExc(qty_decimal) THEN qty_decimal
                ELSE IF IsExc(rate_decimal) THEN rate_decimal
                ELSE ToFloat(QuantizeHalfUp(DMul(qty_decimal, rate_decimal)))
    IN  ExceptValueTypeError(body)

(* the loop subtotal += Decimal(str(total)); the first failing conversion  *)
(* ends it                                                                 *)
RECURSIVE SumDecimals(_, _)
SumDecimals(acc, totals) ==
    IF totals = <<>> THEN acc
    ELSE LET d == DecimalOfStr(Head(totals))
         IN  IF IsExc(d) THEN d ELSE SumDecimals(DAdd(acc, d), Tail(totals))

(* line_totals is a list [t |-> "list", items |-> <<...>>], or a value     *)
(* that cannot be iterated (None, a number), on which the for statement    *)
(* raises TypeError                                                        *)
calculate_subtotal(line_totals) ==
    LET body == IF line_totals.t # "list" THEN Raise("TypeError")
                ELSE LET s == SumDecimals(Num(0, 2), line_totals.items)
                     IN  IF IsExc(s) THEN s ELSE ToFloat(QuantizeHalfUp(s))
    IN  ExceptValueTypeError(body)

(* the tax truncated to the cent instead of rounded                        *)
calculate_tax_amount_Truncated(subtotal, tax_rate) ==
    LET p == DMul(subtotal, tax_rate)
    IN  IF p.e <= 2 THEN ToFloat(Num(p.c * Pow10(2 - p.e), 2))
        ELSE ToFloat(Num(p.c \div Pow10(p.e - 2), 2))

calculate_tax_amount(subtotal, tax_rate) ==
    LET subtotal_decimal == DecimalOfStr(subtotal)
        tax_rate_decimal == DecimalOfStr(tax_rate)
        body == IF IsExc(subtotal_decimal) THEN subtotal_decimal
                ELSE IF IsExc(tax_rate_decimal) THEN tax_rate_decimal
                ELSE ToFloat(QuantizeHalfUp(DMul(subtotal_decimal, tax_rate_decimal)))
    IN  ExceptValueTypeError(body)

(* the total taken from the subtotal alone, the tax left out              *)
calculate_total_WithoutTax(subtotal, tax_amount) ==
    IF subtotal.t = "num" THEN ToFloat(QuantizeHalfUp(subtotal)) ELSE subtotal

calculate_total(subtotal, tax_amount) ==
    LET subtotal_decimal == DecimalOfStr(subtotal)
        tax_decimal == DecimalOfStr(tax_amount)
        body == IF IsExc(subtotal_decimal) THEN subtotal_decimal
                ELSE IF IsExc(tax_decimal) THEN tax_decimal
                ELSE ToFloat(QuantizeHalfUp(DAdd(subtotal_decimal, tax_decimal)))
    IN  ExceptValueTypeError(body)

PyList(s) == [t |-> "list", items |-> s]

(* an exception raised while a list is being built leaves no list          *)
FirstExc(s) ==
    IF \E i \in 1..Len(s) : IsExc(s[i])
    THEN s[CHOOSE i \in 1..Len(s) : IsExc(s[i]) /\ \A j \in 1..(i - 1) : ~IsExc(s[j])]
    ELSE NoneVal

RECURSIVE SumProducts(_)
SumProducts(items) ==
    IF items = <<>> THEN Num(0, 2)
    ELSE DAdd(DMul(Head(items).quantity, Head(items).rate), SumProducts(Tail(items)))

(* round-of-sum: the subtotal rounded once from the unrounded products     *)
calculate_invoice_totals_RoundOfSum(items) ==
    [line_totals |-> [i \in 1..Len(items) |->
                         calculate_line_total(items[i].quantity, items[i].rate)],
     subtotal |-> ToFloat(QuantizeHalfUp(SumProducts(items)))]

(* items are dicts with the keys 'quantity' and 'rate'                     *)
calculate_invoice_totals(items) ==
    LET line_totals == [i \in 1..Len(items) |->
                           calculate_line_total(items[i].quantity, items[i].rate)]
        exc == FirstExc(line_totals)
    IN  IF IsExc(exc) THEN [line_totals |-> <<>>, subtotal |-> exc]
        ELSE [line_totals |-> line_totals,
              subtotal |-> calculate_subtotal(PyList(line_totals))]

NoTotals == [subtotal |-> NoneVal, tax_amount |-> NoneVal, total |-> NoneVal,
             line_totals |-> <<>>]

RaisedTotals(exc) == [subtotal |-> exc, tax_amount |-> exc, total |-> exc,
                      line_totals |-> <<>>]

(* the module-level calculate_invoice_total(items, tax_rate)               *)
calculate_invoice_total(items, tax_rate) ==
    LET totals == calculate_invoice_totals(items)
        subtotal == totals.subtotal
        tax_amount == calculate_tax_amount(subtotal, tax_rate)
        total == calculate_total(subtotal, tax_amount)
    IN  IF IsExc(subtotal) THEN RaisedTotals(subtotal)
        ELSE IF IsExc(tax_amount) THEN RaisedTotals(tax_amount)
        ELSE IF IsExc(total) THEN RaisedTotals(total)
        ELSE [subtotal |-> subtotal, tax_amount |-> tax_amount, total |-> total,
              line_totals |-> totals.line_totals]

-----------------------------------------------------------------------------
(* Inputs of the engine                                                    *)

MaxItems == 2

(* 0, 0.5, 1, 2.5, 3, 10 *)
Quantities == {Num(0, 0), Num(5, 1), Num(1, 0), Num(25, 1), Num(3, 0), Num(10, 0)}

(* 0, 0.01, 0.125, 0.333, 19.99, 150, 500 *)
Rates == {Num(0, 0), Num(1, 2), Num(125, 3), Num(333, 3), Num(1999, 2),
          Num(150, 0), Num(500, 0)}

(* the rates of DEFAULT_TAX_RATES, and the upper end 1 of the valid range  *)
TaxRates == {Num(0, 0), Num(7, 2), Num(85, 3), Num(1, 1), Num(2, 1), Num(1, 0)}

(* two-decimal amounts, among them 0.10 and 0.20 whose binary sum is not   *)
(* 0.30, and a negative one                                                *)
Amounts == {Num(0, 0), Num(1, 1), Num(2, 1), Num(7, 2), Num(13, 2), Num(-5, 2),
            Num(2000, 0), Num(170, 0), Num(217, 1)}

NonNumeric == {Text, NoneVal}

ItemDicts == [quantity : Quantities, rate : Rates]

RECURSIVE SeqsUpTo(_, _)
SeqsUpTo(S, n) ==
    IF n = 0 THEN {<<>>}
    ELSE LET shorter == SeqsUpTo(S, n - 1)
         IN  shorter \cup {Append(s, x) : s \in {t \in shorter : Len(t) = n - 1}, x \in S}

-----------------------------------------------------------------------------
(* Calls of the engine.  The arguments of a call are drawn in Init (argA,  *)
(* argB for scalar parameters, argList for a list parameter); each action  *)
(* is one call of one function on them, its result kept in ret or          *)
(* retTotals.                                                              *)

Scalars == Quantities \cup Rates \cup TaxRates \cup Amounts \cup NonNumeric

InitCalc ==
    /\ op = "none"
    /\ ret = NoneVal
    /\ retTotals = NoTotals
    /\ \/ /\ argA \in Scalars
          /\ argB \in Scalars
          /\ argList = PyList(<<>>)
       \/ /\ argA = NoneVal
          /\ argB \in TaxRates
          /\ argList \in {PyList(s) : s \in SeqsUpTo(ItemDicts, MaxItems)}
       \/ /\ argA = NoneVal
          /\ argB = NoneVal
          /\ argList \in {PyList(s) : s \in SeqsUpTo(Amounts \cup {Text}, MaxItems)}
                             \cup NonNumeric

IsItemList(l) == l.t = "list" /\ \A i \in 1..Len(l.items) : l.items[i] \in ItemDicts

CallLineTotal ==
    /\ op = "none"
    /\ argList = PyList(<<>>)
    /\ op' = "calculate_line_total"
    /\ ret' = calculate_line_total(argA, argB)
    /\ UNCHANGED <<argA, argB, argList, retTotals>>
    /\ UNCHANGED notCalc

CallSubtotal ==
    /\ op = "none"
    /\ argB = NoneVal
    /\ op' = "calculate_subtotal"
    /\ ret' = calculate_subtotal(argList)
    /\ UNCHANGED <<argA, argB, argList, retTotals>>
    /\ UNCHANGED notCalc

CallTaxAmount ==
    /\ op = "none"
    /\ argList = PyList(<<>>)
    /\ op' = "calculate_tax_amount"
    /\ ret' = calculate_tax_amount(argA, argB)
    /\ UNCHANGED <<argA, argB, argList, retTotals>>
    /\ UNCHANGED notCalc

CallTotal ==
    /\ op = "none"
    /\ argList = PyList(<<>>)
    /\ op' = "calculate_total"
    /\ ret' = calculate_total(argA, argB)
    /\ UNCHANGED <<argA, argB, argList, retTotals>>
    /\ UNCHANGED notCalc

CallInvoiceTotal ==
    /\ op = "none"
    /\ argB \in TaxRates
    /\ IsItemList(argList)
    /\ argA = NoneVal
    /\ op' = "calculate_invoice_total"
    /\ retTotals' = calculate_invoice_total(argList.items, argB)
    /\ UNCHANGED <<argA, argB, argList, ret>>
    /\ UNCHANGED notCalc

NextCalc ==
    \/ CallLineTotal
    \/ CallSubtotal
    \/ CallTaxAmount
    \/ CallTotal
    \/ CallInvoiceTotal

(* no call of the engine is being examined                                 *)
IdleCalc ==
    /\ op = "none"
    /\ argA = NoneVal
    /\ argB = NoneVal
    /\ argList = PyList(<<>>)
    /\ ret = NoneVal
    /\ retTotals = NoTotals

-----------------------------------------------------------------------------
(* The Invoice aggregate (database/models.py), the invoice form            *)
(* (gui/invoice_form.py), the invoices table and the PDF generators.       *)
(*                                                                         *)
(* pdf is the document written by the handler that has just run, if it    *)
(* was one that renders.                                                   *)
(*                                                                         *)
(* InvoiceItem objects live in heap and are referred to by identity: the   *)
(* form's list self.items and the list invoice.items are separate lists    *)
(* (list.copy()) of the same objects.  An object that no list refers to    *)
(* is dropped.                                                             *)

MaxFormItems == 1

ObjIds == 1..(2 * MaxFormItems)

NoObj == [quantity |-> NoneVal, rate |-> NoneVal, amount |-> NoneVal]

(* what the item dialog returns: 1 x 0.125 and 10 x 150.00, binary        *)
(* fractions, so that quantity * rate is exact in floating point           *)
DialogResults == {[quantity |-> Num(1, 0), rate |-> Num(125, 3)],
                  [quantity |-> Num(10, 0), rate |-> Num(150, 0)]}

DEFAULT_TAX_RATES ==
    [n \in {"None", "Sales Tax (7%)", "Sales Tax (8.5%)", "Sales Tax (10%)",
            "VAT (20%)", "Custom"} |->
        CASE n = "None" -> Num(0, 0)
          [] n = "Sales Tax (7%)" -> Num(7, 2)
          [] n = "Sales Tax (8.5%)" -> Num(85, 3)
          [] n = "Sales Tax (10%)" -> Num(1, 1)
          [] n = "VAT (20%)" -> Num(2, 1)
          [] n = "Custom" -> Num(0, 0)]

(* the order in which DEFAULT_TAX_RATES.items() yields the names           *)
TaxNameOrder == <<"None", "Sales Tax (7%)", "Sales Tax (8.5%)", "Sales Tax (10%)",
                  "VAT (20%)", "Custom">>

(* the entries of the tax combobox that the model selects                  *)
FormTaxChoices == {"None", "Sales Tax (8.5%)"}

Range(s) == {s[i] : i \in 1..Len(s)}

RemoveAt(s, i) == SubSeq(s, 1, i - 1) \o SubSeq(s, i + 1, Len(s))

(* Python's round(x, 2) of a float x whose value is the decimal d: the     *)
(* nearest 2-decimal value, and the even one when x lies exactly halfway.  *)
(* x lies exactly halfway only when it is exact in binary, which the       *)
(* inputs above ensure for every halfway d                                 *)
round2(d) ==
    IF d.e <= 2 THEN ToFloat(d)
    ELSE LET u == Pow10(d.e - 2)
             q == Abs(d.c) \div u
             r == Abs(d.c) % u
             m == IF 2 * r > u \/ (2 * r = u /\ q % 2 = 1) THEN q + 1 ELSE q
         IN  ToFloat(Num(IF d.c < 0 THEN -m ELSE m, 2))

(* InvoiceItem(description, quantity, rate): __post_init__ fills amount    *)
(* with quantity * rate when it is 0.0                                     *)
InvoiceItem(quantity, rate, amount) ==
    [quantity |-> quantity, rate |-> rate,
     amount |-> IF amount.c = 0 THEN ToFloat(DMul(quantity, rate)) ELSE amount]

(* as ItemTotal, but read from the field amount                            *)
ItemTotal_Amount(item) == round2(item.amount)

(* the property InvoiceItem.total                                          *)
ItemTotal(item) == round2(DMul(item.quantity, item.rate))

RECURSIVE SumTotals(_)
SumTotals(items) ==
    IF items = <<>> THEN Num(0, 0)
    ELSE DAdd(ItemTotal(Head(items)), SumTotals(Tail(items)))

(* the item objects of a list of references                                *)
Deref(h, ids) == [i \in 1..Len(ids) |-> h[ids[i]]]

(* Invoice.calculate_totals on the item objects and the tax rate           *)
calculate_totals(items, tax_rate) ==
    LET subtotal == round2(SumTotals(items))
        tax_amount == round2(DMul(subtotal, tax_rate))
        total == round2(DAdd(subtotal, tax_amount))
    IN  [subtotal |-> subtotal, tax_amount |-> tax_amount, total |-> total]

ZeroTotals == [subtotal |-> Num(0, 0), tax_amount |-> Num(0, 0), total |-> Num(0, 0)]

NoInvoice == [exists |-> FALSE, items |-> <<>>, tax_rate |-> Num(0, 0),
              totals |-> ZeroTotals]

NoRow == [exists |-> FALSE, items |-> <<>>, tax_rate |-> Num(0, 0),
          totals |-> ZeroTotals]

NoPdf == [rendered |-> FALSE, template |-> "", line_totals |-> <<>>,
          rows |-> <<>>]

(* Invoice.to_dict with InvoiceItem.to_dict: the row written to the        *)
(* invoices table; an item is serialized with 'amount': self.total         *)
to_dict(inv, h) ==
    [exists |-> TRUE,
     items |-> [i \in 1..Len(inv.items) |->
                   [quantity |-> h[inv.items[i]].quantity,
                    rate |-> h[inv.items[i]].rate,
                    amount |-> ItemTotal(h[inv.items[i]])]],
     tax_rate |-> inv.tax_rate,
     totals |-> inv.totals]

(* the objects that Invoice.from_dict builds from a row: the constructor   *)
(* keeps the stored subtotal, tax_amount and total, and the items are new  *)
(* InvoiceItem objects                                                     *)
from_dict_items(row) ==
    [i \in 1..Len(row.items) |->
        InvoiceItem(row.items[i].quantity, row.items[i].rate, row.items[i].amount)]

(* the first name in table order whose rate is within 0.001 of tax_rate,   *)
(* else "Custom"                                                           *)
TaxNameOf(tax_rate) ==
    LET near(n) == LET a == DEFAULT_TAX_RATES[n]
                       e == Max(Max(a.e, tax_rate.e), 3)
                   IN  Abs(a.c * Pow10(e - a.e) - tax_rate.c * Pow10(e - tax_rate.e))
                           < Pow10(e - 3)
        hits == {i \in 1..Len(TaxNameOrder) : near(TaxNameOrder[i])}
    IN  IF hits = {} THEN "Custom"
        ELSE TaxNameOrder[CHOOSE i \in hits : \A j \in hits : i <= j]

(* InvoiceFormWindow._calculate_totals: the totals the form displays       *)
FormCalculateTotals(h, ids, tax_name) ==
    LET items_data == [i \in 1..Len(ids) |->
                          [quantity |-> h[ids[i]].quantity, rate |-> h[ids[i]].rate]]
        totals == calculate_invoice_total(items_data, DEFAULT_TAX_RATES[tax_name])
    IN  [subtotal |-> totals.subtotal, tax_amount |-> totals.tax_amount,
         total |-> totals.total]

(* the totals rows of a rendered invoice: the default generator, the       *)
(* modern and the classic template show subtotal, tax (when the rate is    *)
(* positive) and total; the minimal template shows the total only          *)
TotalsRows(template, inv) ==
    IF template = "minimal" THEN <<[label |-> "total", value |-> inv.totals.total]>>
    ELSE <<[label |-> "subtotal", value |-> inv.totals.subtotal]>>
         \o (IF inv.tax_rate.c > 0
             THEN <<[label |-> "tax", value |-> inv.totals.tax_amount]>> ELSE <<>>)
         \o <<[label |-> "total", value |-> inv.totals.total]>>

(* the items table (item.total per row) and the totals section             *)
Render(template, inv, items) ==
    [rendered |-> TRUE, template |-> template,
     line_totals |-> [i \in 1..Len(items) |-> ItemTotal(items[i])],
     rows |-> TotalsRows(template, inv)]

Collect(h, live) == [i \in ObjIds |-> IF i \in live THEN h[i] ELSE NoObj]

(* the form as opened for a new invoice, nothing stored yet                *)
InitInv ==
    /\ heap = [i \in ObjIds |-> NoObj]
    /\ invoice = NoInvoice
    /\ formItems = <<>>
    /\ formTax = "None"
    /\ formTotals = ZeroTotals
    /\ db = NoRow
    /\ pdf = NoPdf
    /\ handler = "__init__"

(* _add_item: the dialog result becomes a new InvoiceItem appended to      *)
(* self.items; _refresh_items_display recalculates the displayed totals    *)
FormAddItem ==
    \E result \in DialogResults :
        /\ Len(formItems) < MaxFormItems
        /\ LET live == Range(formItems) \cup Range(invoice.items)
               id == CHOOSE i \in ObjIds \ live : \A j \in ObjIds \ live : i <= j
               h == [heap EXCEPT ![id] = InvoiceItem(result.quantity, result.rate, Num(0, 0))]
           IN  /\ heap' = h
               /\ formItems' = Append(formItems, id)
               /\ formTotals' = FormCalculateTotals(h, formItems', formTax)
        /\ handler' = "_add_item"
        /\ pdf' = NoPdf
        /\ UNCHANGED <<invoice, formTax, db>>
        /\ UNCHANGED notInv

(* _edit_selected_item: the selected object is updated in place            *)
FormEditItem ==
    \E i \in 1..Len(formItems), result \in DialogResults :
        /\ LET h == [heap EXCEPT ![formItems[i]] =
                        [quantity |-> result.quantity, rate |-> result.rate,
                         amount |-> ToFloat(DMul(result.quantity, result.rate))]]
           IN  /\ heap' = h
               /\ formTotals' = FormCalculateTotals(h, formItems, formTax)
        /\ handler' = "_edit_selected_item"
        /\ pdf' = NoPdf
        /\ UNCHANGED <<invoice, formItems, formTax, db>>
        /\ UNCHANGED notInv

(* _remove_selected_item: del self.items[item_index]                       *)
FormRemoveItem ==
    \E i \in 1..Len(formItems) :
        /\ formItems' = RemoveAt(formItems, i)
        /\ heap' = Collect(heap, Range(formItems') \cup Range(invoice.items))
        /\ formTotals' = FormCalculateTotals(heap', formItems', formTax)
        /\ handler' = "_remove_selected_item"
        /\ pdf' = NoPdf
        /\ UNCHANGED <<invoice, formTax, db>>
        /\ UNCHANGED notInv

(* _on_tax_rate_changed: another entry of the tax combobox is selected     *)
FormTaxChanged ==
    \E name \in FormTaxChoices :
        /\ name # formTax
        /\ formTax' = name
        /\ formTotals' = FormCalculateTotals(heap, formItems, name)
        /\ handler' = "_on_tax_rate_changed"
        /\ pdf' = NoPdf
        /\ UNCHANGED <<heap, invoice, formItems, db>>
        /\ UNCHANGED notInv

(* _save_invoice with a valid form and client: the invoice object (the     *)
(* loaded one, or a new Invoice()) takes the tax rate and a copy of the    *)
(* item list; DatabaseManager.save_invoice recalculates its totals and     *)
(* writes the row                                                          *)
FormSave ==
    /\ formItems # <<>>
    /\ LET tax_rate == DEFAULT_TAX_RATES[formTax]
           inv == [exists |-> TRUE, items |-> formItems, tax_rate |-> tax_rate,
                   totals |-> calculate_totals(Deref(heap, formItems), tax_rate)]
       IN  /\ invoice' = inv
           /\ db' = to_dict(inv, heap)
    /\ heap' = Collect(heap, Range(formItems))
    /\ handler' = "_save_invoice"
    /\ pdf' = NoPdf
    /\ UNCHANGED <<formItems, formTax, formTotals>>
    /\ UNCHANGED notInv

(* a form opened on the stored invoice: _load_invoice takes the invoice    *)
(* from get_invoice, selects the tax name, copies the item list and        *)
(* recalculates the displayed totals                                       *)
FormOpenInvoice ==
    /\ db.exists
    /\ LET objs == from_dict_items(db)
           ids == [i \in 1..Len(objs) |-> i]
           h == [i \in ObjIds |-> IF i <= Len(objs) THEN objs[i] ELSE NoObj]
           name == TaxNameOf(db.tax_rate)
       IN  /\ heap' = h
           /\ invoice' = [exists |-> TRUE, items |-> ids, tax_rate |-> db.tax_rate,
                          totals |-> db.totals]
           /\ formItems' = ids
           /\ formTax' = name
           /\ formTotals' = FormCalculateTotals(h, ids, name)
    /\ handler' = "_load_invoice"
    /\ pdf' = NoPdf
    /\ UNCHANGED db
    /\ UNCHANGED notInv

(* a form opened for a new invoice: _setup_new_invoice                     *)
FormOpenNew ==
    /\ handler # "__init__"
    /\ heap' = [i \in ObjIds |-> NoObj]
    /\ invoice' = NoInvoice
    /\ formItems' = <<>>
    /\ formTax' = "None"
    /\ formTotals' = ZeroTotals
    /\ handler' = "_setup_new_invoice"
    /\ pdf' = NoPdf
    /\ UNCHANGED db
    /\ UNCHANGED notInv

(* InvoiceFormWindow._generate_pdf: the default generator renders          *)
(* self.invoice, which requires a saved or loaded invoice                  *)
FormGeneratePdf ==
    /\ invoice.exists
    /\ pdf' = Render("default", invoice, Deref(heap, invoice.items))
    /\ handler' = "_generate_pdf"
    /\ UNCHANGED <<heap, invoice, formItems, formTax, formTotals, db>>
    /\ UNCHANGED notInv

(* MainWindow._generate_invoice_pdf: the invoice is read from the store    *)
(* and rendered with the chosen template                                   *)
MainGeneratePdf ==
    \E template \in {"default", "modern", "classic", "minimal"} :
        /\ db.exists
        /\ pdf' = Render(template,
                         [exists |-> TRUE, items |-> <<>>, tax_rate |-> db.tax_rate,
                          totals |-> db.totals],
                         from_dict_items(db))
        /\ handler' = "_generate_invoice_pdf"
        /\ UNCHANGED <<heap, invoice, formItems, formTax, formTotals, db>>
        /\ UNCHANGED notInv

NextInv ==
    \/ FormAddItem
    \/ FormEditItem
    \/ FormRemoveItem
    \/ FormTaxChanged
    \/ FormSave
    \/ FormOpenInvoice
    \/ FormOpenNew
    \/ FormGeneratePdf
    \/ MainGeneratePdf

-----------------------------------------------------------------------------
(* DateCalculator.calculate_due_date (utils/calculations.py).              *)
(*                                                                         *)
(* A text is the sequence of its characters.  A datetime is the record     *)
(* [t |-> "date", c], c the proleptic Gregorian ordinal of its day (the    *)
(* time of day is carried over unchanged by the addition of whole days).   *)

Date(n) == [t |-> "date", c |-> n, e |-> 0, x |-> ""]

(* datetime.min and datetime.max as ordinals, and the largest magnitude of *)
(* timedelta(days=...)                                                     *)
MinOrdinal == 1

MaxOrdinal == 3652059

MaxTimedeltaDays == 999999999

IsDigit(ch) == ch \in {"0", "1", "2", "3", "4", "5", "6", "7", "8", "9"}

DigitValue(ch) ==
    CASE ch = "0" -> 0 [] ch = "1" -> 1 [] ch = "2" -> 2 [] ch = "3" -> 3
      [] ch = "4" -> 4 [] ch = "5" -> 5 [] ch = "6" -> 6 [] ch = "7" -> 7
      [] ch = "8" -> 8 [] ch = "9" -> 9

IsSpace(ch) == ch \in {" ", "\t"}

(* str.startswith                                                          *)
startswith(s, prefix) ==
    Len(s) >= Len(prefix) /\ SubSeq(s, 1, Len(prefix)) = prefix

(* str.split() with no separator: the maximal runs of non-whitespace       *)
RECURSIVE split(_)
split(s) ==
    IF s = <<>> THEN <<>>
    ELSE IF IsSpace(Head(s)) THEN split(Tail(s))
    ELSE LET ends == {i \in 1..Len(s) : IsSpace(s[i])}
             n == IF ends = {} THEN Len(s) + 1
                  ELSE CHOOSE i \in ends : \A j \in ends : i <= j
         IN  <<SubSeq(s, 1, n - 1)>> \o split(SubSeq(s, n, Len(s)))

RECURSIVE DigitsValue(_)
DigitsValue(ds) ==
    IF ds = <<>> THEN 0
    ELSE 10 * DigitsValue(SubSeq(ds, 1, Len(ds) - 1)) + DigitValue(ds[Len(ds)])

(* int(tok) for a token without whitespace: an optional sign, then digits  *)
(* with single underscores allowed between digits; otherwise ValueError    *)
py_int(tok) ==
    LET body == IF tok # <<>> /\ Head(tok) \in {"+", "-"} THEN Tail(tok) ELSE tok
        valid == /\ body # <<>>
                 /\ \A i \in 1..Len(body) :
                       \/ IsDigit(body[i])
                       \/ /\ body[i] = "_"
                          /\ 1 < i /\ i < Len(body)
                          /\ IsDigit(body[i - 1]) /\ IsDigit(body[i + 1])
        value == DigitsValue(SelectSeq(body, IsDigit))
    IN  IF ~valid THEN Raise("ValueError")
        ELSE Num(IF Head(tok) = "-" THEN -value ELSE value, 0)

(* invoice_date + timedelta(days=days)                                     *)
AddDays(d, days) ==
    IF Abs(days) > MaxTimedeltaDays THEN Raise("OverflowError")
    ELSE IF d.c + days < MinOrdinal \/ d.c + days > MaxOrdinal THEN Raise("OverflowError")
    ELSE Date(d.c + days)

NetSpace == <<"N", "e", "t", " ">>

DueOnReceipt == <<"D", "u", "e", " ", "o", "n", " ", "R", "e", "c", "e", "i", "p", "t">>

(* now is what datetime.now() returns when no invoice date is given        *)
calculate_due_date(invoice_date, payment_terms, now) ==
    LET d == IF invoice_date = NoneVal THEN now ELSE invoice_date
    IN  IF startswith(payment_terms, NetSpace)
        THEN LET parts == split(payment_terms)
             IN  IF Len(parts) < 2 THEN AddDays(d, 30)
                 ELSE LET days == py_int(parts[2])
                      IN  IF IsExc(days) THEN AddDays(d, 30)
                          ELSE AddDays(d, days.c)
        ELSE IF payment_terms = DueOnReceipt THEN d
        ELSE AddDays(d, 30)

(* invoice dates: 2023-12-15, 2024-01-01, 2024-02-15                       *)
InvoiceDates == {Date(738869), Date(738886), Date(738931)}

(* what can follow "Net " in the payment-terms box                         *)
NetTails ==
    {<<>>, <<"0">>, <<"7">>, <<"1", "5">>, <<"3", "0">>, <<"4", "5">>,
     <<"-", "5">>, <<"+", "7">>, <<"0", "0", "4", "5">>, <<"4", "_", "5">>,
     <<"a", "b", "c">>, <<"1", ".", "5">>, <<"4", "5", "_">>,
     <<" ", "4", "5">>, <<"\t", "4", "5">>,
     <<"1", "5", " ", "d", "a", "y", "s">>, <<"4", "5", " ">>,
     <<"d", "a", "y", "s", " ", "1", "5">>,
     <<"3", "0", "0", "0", "0", "0", "0">>,
     <<"-", "7", "3", "8", "8", "8", "6">>,
     <<"1", "0", "0", "0", "0", "0", "0", "0", "0", "0">>}

(* texts that do not start with "Net "                                     *)
OtherTerms ==
    {DueOnReceipt, DueOnReceipt \o <<" ">>, <<"C", "u", "s", "t", "o", "m">>,
     <<>>, <<"N", "e", "t">>, <<"N", "e", "t", "\t", "4", "5">>,
     <<"n", "e", "t", " ", "4", "5">>, <<"N", "e", "t", "4", "5">>,
     <<"g", "a", "r", "b", "a", "g", "e">>,
     <<"d", "u", "e", " ", "o", "n", " ", "r", "e", "c", "e", "i", "p", "t">>}

PaymentTermsTexts == {NetSpace \o tail : tail \in NetTails} \cup OtherTerms

InitDue ==
    /\ dueOp = "none"
    /\ dueDate \in InvoiceDates \cup {NoneVal}
    /\ dueTerms \in PaymentTermsTexts
    /\ dueRet = NoneVal

IdleDue ==
    /\ dueOp = "none"
    /\ dueDate = NoneVal
    /\ dueTerms = <<>>
    /\ dueRet = NoneVal

CallDueDate ==
    \E now \in InvoiceDates :
        /\ dueOp = "none"
        /\ dueOp' = "calculate_due_date"
        /\ dueRet' = calculate_due_date(dueDate, dueTerms, now)
        /\ UNCHANGED <<dueDate, dueTerms>>
        /\ UNCHANGED notDue

NextDue == CallDueDate

-----------------------------------------------------------------------------
(* Invoice numbers: AppSettings.get_next_invoice_number, the new-invoice   *)
(* form and DatabaseManager.save_invoice.                                  *)
(*                                                                         *)
(* nextNumber is the stored app_settings.next_invoice_number; rows is the  *)
(* invoice_number column of the invoices table, rows[id] the number of the *)
(* invoice with that id; numForm is the open invoice form: its number      *)
(* field and the id of self.invoice (0 while there is none); numTyped      *)
(* records that the user has typed into the number field.                  *)

MaxNewInvoices == 2

(* the invoices that create_sample_data saves at the first start: two or   *)
(* three for each of three clients                                         *)
SampleInvoices == 7

DigitChar(k) ==
    CASE k = 0 -> "0" [] k = 1 -> "1" [] k = 2 -> "2" [] k = 3 -> "3"
      [] k = 4 -> "4" [] k = 5 -> "5" [] k = 6 -> "6" [] k = 7 -> "7"
      [] k = 8 -> "8" [] k = 9 -> "9"

RECURSIVE Digits(_)
Digits(n) ==
    IF n < 10 THEN <<DigitChar(n)>> ELSE Digits(n \div 10) \o <<DigitChar(n % 10)>>

RECURSIVE ZeroPad(_, _)
ZeroPad(ds, width) == IF Len(ds) >= width THEN ds ELSE ZeroPad(<<"0">> \o ds, width)

(* invoice_number_format.format(n) with the format "INV-{:04d}"            *)
FormatNumber(n) == <<"I", "N", "V", "-">> \o ZeroPad(Digits(n), 4)

(* AppSettings.get_next_invoice_number on a settings object whose counter  *)
(* is n: the number handed out and the counter of the object afterwards    *)
get_next_invoice_number(n) == [number |-> FormatNumber(n), next_invoice_number |-> n + 1]

(* DatabaseManager.save_invoice of a new invoice without a number: the     *)
(* number comes from the stored settings and the advanced counter is       *)
(* stored; the insert fails on a number that a row already has             *)
RECURSIVE SaveUnnumbered(_, _)
SaveUnnumbered(store, count) ==
    IF count = 0 THEN store
    ELSE LET got == get_next_invoice_number(store.next_invoice_number)
             inserted == IF got.number \in Range(store.rows) THEN store.rows
                         ELSE Append(store.rows, got.number)
         IN  SaveUnnumbered([next_invoice_number |-> got.next_invoice_number,
                             rows |-> inserted], count - 1)

(* a new database: AppSettings() has next_invoice_number 1                 *)
EmptyStore == [next_invoice_number |-> 1, rows |-> <<>>]

NoForm == [open |-> FALSE, field |-> <<>>, id |-> 0]

(* what the user may type into the invoice number entry                    *)
TypedNumbers == {FormatNumber(3), FormatNumber(SampleInvoices + 2), <<"X", "-", "1">>}

(* the application after its first start: create_sample_data has run       *)
InitNum ==
    /\ nextNumber = SaveUnnumbered(EmptyStore, SampleInvoices).next_invoice_number
    /\ rows = SaveUnnumbered(EmptyStore, SampleInvoices).rows
    /\ numForm = NoForm
    /\ numTyped = FALSE
    /\ numHandler = "create_sample_data"

(* a form is opened for a new invoice: _setup_new_invoice reads the stored *)
(* settings and puts the next number into the field; the settings object   *)
(* whose counter it advanced is dropped                                    *)
NumOpenNew ==
    /\ LET got == get_next_invoice_number(nextNumber)
       IN  numForm' = [open |-> TRUE, field |-> got.number, id |-> 0]
    /\ numHandler' = "_setup_new_invoice"
    /\ UNCHANGED <<nextNumber, rows, numTyped>>
    /\ UNCHANGED notNum

(* a form is opened on a stored invoice: _load_invoice puts its number     *)
(* into the field                                                          *)
NumOpenInvoice ==
    \E id \in 1..Len(rows) :
        /\ numForm' = [open |-> TRUE, field |-> rows[id], id |-> id]
        /\ numHandler' = "_load_invoice"
        /\ UNCHANGED <<nextNumber, rows, numTyped>>
        /\ UNCHANGED notNum

(* the user replaces the text of the invoice number entry                  *)
NumTypeNumber ==
    \E text \in TypedNumbers :
        /\ numForm.open
        /\ text # numForm.field
        /\ numForm' = [numForm EXCEPT !.field = text]
        /\ numTyped' = TRUE
        /\ numHandler' = "invoice_number_var"
        /\ UNCHANGED <<nextNumber, rows>>
        /\ UNCHANGED notNum

(* _save_invoice: for a new invoice the stored settings are read and       *)
(* written back as read; the invoice takes the number of the field;        *)
(* save_invoice inserts a row (no id yet) or updates the row of the id,    *)
(* and a number that another row has raises "Invoice number must be        *)
(* unique", which the form reports                                         *)
NumSave ==
    /\ numForm.open
    /\ numForm.field # <<>>
    /\ numForm.id = 0 => Len(rows) < SampleInvoices + MaxNewInvoices
    /\ nextNumber' = nextNumber
    /\ LET others == {rows[i] : i \in (1..Len(rows)) \ {numForm.id}}
       IN  IF numForm.field \in others
           THEN /\ numHandler' = "_save_invoice: error"
                /\ UNCHANGED <<rows, numForm>>
           ELSE /\ numHandler' = "_save_invoice"
                /\ IF numForm.id = 0
                   THEN /\ rows' = Append(rows, numForm.field)
                        /\ numForm' = [numForm EXCEPT !.id = Len(rows) + 1]
                   ELSE /\ rows' = [rows EXCEPT ![numForm.id] = numForm.field]
                        /\ UNCHANGED numForm
    /\ UNCHANGED numTyped
    /\ UNCHANGED notNum

NextNum ==
    \/ NumOpenNew
    \/ NumOpenInvoice
    \/ NumTypeNumber
    \/ NumSave

-----------------------------------------------------------------------------
(* One invoice from its first save on: its number, its status and its      *)
(* company fields, with the settings, the invoice form and the main        *)
(* window's handlers that write them.                                      *)
(*                                                                         *)
(* settings is the company part of the stored app_settings; stored is the  *)
(* row of the invoice in the invoices table, next to the rows of the       *)
(* sample invoices; editForm is the invoice form: the settings object it   *)
(* loaded when it was opened, whether self.invoice is set, and its number  *)
(* and status fields.                                                      *)

Company(name) ==
    [company_name |-> name,
     company_address |-> IF name = "" THEN "" ELSE "1 " \o name \o " Street",
     company_phone |-> IF name = "" THEN "" ELSE "(555) 000-0000",
     company_email |-> IF name = "" THEN "" ELSE "billing@" \o name,
     company_website |-> IF name = "" THEN "" ELSE "www." \o name]

(* what create_sample_data leaves in the settings, and what the user may   *)
(* enter on the settings tab                                               *)
SampleCompany == Company("yourbusiness.com")

SettingsChoices == {SampleCompany, Company("acme.example")}

(* the entries of the status box that the model selects                    *)
FormStatusChoices == {"Draft", "Sent"}

NoStored == [exists |-> FALSE, invoice_number |-> <<>>, status |-> "Draft",
             company |-> Company("")]

NoEditForm == [open |-> FALSE, loaded |-> FALSE, app_settings |-> Company(""),
               number |-> <<>>, status |-> "Draft"]

InitEdit ==
    /\ settings = SampleCompany
    /\ stored = NoStored
    /\ editForm = NoEditForm
    /\ editHandler = "create_sample_data"

(* MainWindow._save_settings: the company fields of the settings tab are   *)
(* written to the stored settings; the invoice form is modal, so it is     *)
(* not open                                                                *)
EditSaveSettings ==
    \E company \in SettingsChoices :
        /\ ~editForm.open
        /\ company # settings
        /\ settings' = company
        /\ editHandler' = "_save_settings"
        /\ UNCHANGED <<stored, editForm>>
        /\ UNCHANGED notEdit

(* InvoiceFormWindow.__init__ without an invoice id: the form loads the    *)
(* settings and _setup_new_invoice proposes a number; the status box       *)
(* starts at "Draft"                                                       *)
EditOpenNew ==
    /\ ~editForm.open
    /\ ~stored.exists
    /\ editForm' = [open |-> TRUE, loaded |-> FALSE, app_settings |-> settings,
                    number |-> get_next_invoice_number(nextNumber).number,
                    status |-> "Draft"]
    /\ editHandler' = "_setup_new_invoice"
    /\ UNCHANGED <<settings, stored>>
    /\ UNCHANGED notEdit

(* InvoiceFormWindow.__init__ with the id of the invoice: the form loads   *)
(* the settings and _load_invoice fills the fields from the row            *)
EditOpenInvoice ==
    /\ ~editForm.open
    /\ stored.exists
    /\ editForm' = [open |-> TRUE, loaded |-> TRUE, app_settings |-> settings,
                    number |-> stored.invoice_number, status |-> stored.status]
    /\ editHandler' = "_load_invoice"
    /\ UNCHANGED <<settings, stored>>
    /\ UNCHANGED notEdit

(* the user replaces the text of the invoice number entry                  *)
EditTypeNumber ==
    \E text \in TypedNumbers :
        /\ editForm.open
        /\ text # editForm.number
        /\ editForm' = [editForm EXCEPT !.number = text]
        /\ editHandler' = "invoice_number_var"
        /\ UNCHANGED <<settings, stored>>
        /\ UNCHANGED notEdit

(* the user selects another status                                         *)
EditSelectStatus ==
    \E status \in FormStatusChoices :
        /\ editForm.open
        /\ status # editForm.status
        /\ editForm' = [editForm EXCEPT !.status = status]
        /\ editHandler' = "status_var"
        /\ UNCHANGED <<settings, stored>>
        /\ UNCHANGED notEdit

(* _save_invoice: the invoice (self.invoice, or a new Invoice()) takes the *)
(* number and the status of the fields and the company fields of the       *)
(* form's settings object; save_invoice inserts or updates the row, and a  *)
(* number that another row has raises "Invoice number must be unique"      *)
EditSave ==
    /\ editForm.open
    /\ editForm.number # <<>>
    /\ IF editForm.number \in Range(rows)
       THEN /\ editHandler' = "_save_invoice: error"
            /\ UNCHANGED <<stored, editForm>>
       ELSE /\ editHandler' = "_save_invoice"
            /\ stored' = [exists |-> TRUE, invoice_number |-> editForm.number,
                          status |-> editForm.status,
                          company |-> editForm.app_settings]
            /\ editForm' = [editForm EXCEPT !.loaded = TRUE]
    /\ UNCHANGED settings
    /\ UNCHANGED notEdit

(* the form window is closed                                               *)
EditClose ==
    /\ editForm.open
    /\ editForm' = NoEditForm
    /\ editHandler' = "destroy"
    /\ UNCHANGED <<settings, stored>>
    /\ UNCHANGED notEdit

(* MainWindow._mark_invoice_paid: update_invoice_status(id, "Paid") writes *)
(* the status column of the row                                            *)
EditMarkPaid ==
    /\ ~editForm.open
    /\ stored.exists
    /\ stored' = [stored EXCEPT !.status = "Paid"]
    /\ editHandler' = "_mark_invoice_paid"
    /\ UNCHANGED <<settings, editForm>>
    /\ UNCHANGED notEdit

NextEdit ==
    \/ EditSaveSettings
    \/ EditOpenNew
    \/ EditOpenInvoice
    \/ EditTypeNumber
    \/ EditSelectStatus
    \/ EditSave
    \/ EditClose
    \/ EditMarkPaid

-----------------------------------------------------------------------------
(* The documents: InvoicePDFGenerator (pdf_generator/invoice_pdf.py) and   *)
(* the templates (pdf_generator/templates.py).                             *)
(*                                                                         *)
(* A document is the sequence of the blocks after the items table, in the  *)
(* order in which the generator appends them to the story: the totals      *)
(* table with its rows, the notes, the footer line.  A footer text is the  *)
(* sequence of its parts.                                                  *)

Block(kind, totals_data, text) == [block |-> kind, rows |-> totals_data, text |-> text]

(* DateCalculator.format_date_for_display with "%B %d, %Y", on the due     *)
(* dates below                                                             *)
format_date_for_display(date_obj) ==
    CASE date_obj = NoneVal -> ""
      [] date_obj = Date(738886) -> "January 01, 2024"
      [] date_obj = Date(738916) -> "January 31, 2024"

(* InvoicePDFGenerator._build_footer                                       *)
_build_footer(inv) ==
    IF inv.status = "Sent"
    THEN IF inv.payment_terms = DueOnReceipt
         THEN <<"Payment is due upon receipt of this invoice.">>
         ELSE <<"Payment is due by ", format_date_for_display(inv.due_date),
                ". Thank you for your business!">>
    ELSE <<"Thank you for your business!">>

(* the notes block of the default generator and of the modern template     *)
NotesBlock(inv) == IF inv.notes # "" THEN <<Block("notes", <<>>, <<inv.notes>>)>> ELSE <<>>

(* InvoicePDFGenerator.generate_invoice_pdf                                *)
generate_invoice_pdf(inv) ==
    <<Block("totals", TotalsRows("default", inv), <<>>)>>
    \o NotesBlock(inv)
    \o <<Block("footer", <<>>, _build_footer(inv))>>

(* ModernTemplate.generate_pdf: totals, then the notes                     *)
ModernTemplate(inv) ==
    <<Block("totals", TotalsRows("modern", inv), <<>>)>> \o NotesBlock(inv)

(* ClassicTemplate.generate_pdf: totals, then the formal closing           *)
ClassicTemplate(inv) ==
    <<Block("totals", TotalsRows("classic", inv), <<>>),
      Block("footer", <<>>, <<"Thank you for your business.">>)>>

(* MinimalTemplate.generate_pdf: the total only                            *)
MinimalTemplate(inv) == <<Block("totals", TotalsRows("minimal", inv), <<>>)>>

(* get_template: AVAILABLE_TEMPLATES.get(template_name, ModernTemplate())  *)
get_template(template_name) ==
    IF template_name \in {"modern", "classic", "minimal"} THEN template_name
    ELSE "modern"

generate_invoice_with_template(inv, template_name) ==
    LET template == get_template(template_name)
    IN  CASE template = "modern" -> ModernTemplate(inv)
          [] template = "classic" -> ClassicTemplate(inv)
          [] template = "minimal" -> MinimalTemplate(inv)

(* the names passed to generate_invoice_with_template                      *)
TemplateNames == {"modern", "classic", "minimal", "xyz"}

(* the stored invoices that are rendered: one item 10 x 150.00, totals as  *)
(* save_invoice has calculated them                                        *)
DocInvoices ==
    {[exists |-> TRUE, items |-> <<>>, tax_rate |-> tax_rate,
      totals |-> calculate_totals(<<InvoiceItem(Num(10, 0), Num(150, 0), Num(0, 0))>>,
                                  tax_rate),
      notes |-> notes, status |-> status, payment_terms |-> payment_terms,
      due_date |-> due_date] :
        tax_rate \in {DEFAULT_TAX_RATES[n] : n \in FormTaxChoices},
        notes \in {"", "Bank transfer only"},
        status \in {"Draft", "Sent", "Paid"},
        payment_terms \in {NetSpace \o <<"3", "0">>, DueOnReceipt},
        due_date \in {Date(738886), Date(738916)}}

InitDoc ==
    /\ docOp = "none"
    /\ docInvoice \in DocInvoices
    /\ docTemplate = ""
    /\ docOut = <<>>

IdleDoc ==
    /\ docOp = "none"
    /\ docInvoice = CHOOSE inv \in DocInvoices :
                        /\ inv.tax_rate = Num(0, 0) /\ inv.notes = ""
                        /\ inv.status = "Draft" /\ inv.payment_terms = DueOnReceipt
                        /\ inv.due_date = Date(738886)
    /\ docTemplate = ""
    /\ docOut = <<>>

(* the template choice 'default': generate_invoice_pdf(invoice, path)      *)
CallGenerateInvoicePdf ==
    /\ docOp = "none"
    /\ docOp' = "generate_invoice_pdf"
    /\ docTemplate' = "default"
    /\ docOut' = generate_invoice_pdf(docInvoice)
    /\ UNCHANGED docInvoice
    /\ UNCHANGED notDoc

CallGenerateWithTemplate ==
    \E template_name \in TemplateNames :
        /\ docOp = "none"
        /\ docOp' = "generate_invoice_with_template"
        /\ docTemplate' = template_name
        /\ docOut' = generate_invoice_with_template(docInvoice, template_name)
        /\ UNCHANGED docInvoice
        /\ UNCHANGED notDoc

NextDoc ==
    \/ CallGenerateInvoicePdf
    \/ CallGenerateWithTemplate

-----------------------------------------------------------------------------
(* The validators and the currency formatter (utils/calculations.py)       *)

(* the Python values a validator or a formatter is called with: a float or *)
(* an int of value num, a str of characters text, None, [], the float     *)
(* nan, the floats inf and -inf, and an int too large to convert to a      *)
(* float                                                                   *)
PyFloat(v) == [kind |-> "float", num |-> v, text |-> <<>>]

PyStr(s) == [kind |-> "str", num |-> Num(0, 0), text |-> s]

PyNone == [kind |-> "None", num |-> Num(0, 0), text |-> <<>>]

PyEmptyList == [kind |-> "list", num |-> Num(0, 0), text |-> <<>>]

PyNaN == [kind |-> "nan", num |-> Num(0, 0), text |-> <<>>]

PyInf == [kind |-> "inf", num |-> Num(0, 0), text |-> <<>>]

PyNegInf == [kind |-> "-inf", num |-> Num(0, 0), text |-> <<>>]

(* the float -0.0: equal to 0 in every comparison, written with its sign   *)
PyNegZero == [kind |-> "-0.0", num |-> Num(0, 0), text |-> <<>>]

PyBigInt == [kind |-> "bigint", num |-> Num(0, 0), text |-> <<>>]

PyRaise(name) == [kind |-> "exc", num |-> Raise(name), text |-> <<>>]

MIN_AMOUNT == Num(1, 2)

MAX_AMOUNT == Num(99999999, 2)

MaxQuantity == Num(10000, 0)

(* a < b on floats: false whenever one side is nan; inf is above and -inf  *)
(* is below every number                                                   *)
NumLess(a, b) ==
    LET s == Max(a.e, b.e)
    IN  a.c * Pow10(s - a.e) < b.c * Pow10(s - b.e)

Less(a, b) ==
    CASE a.kind = "nan" \/ b.kind = "nan" -> FALSE
      [] a.kind = "-inf" -> b.kind # "-inf"
      [] b.kind = "-inf" -> FALSE
      [] a.kind = "inf" -> FALSE
      [] b.kind = "inf" -> TRUE
      [] OTHER -> NumLess(a.num, b.num)

(* a <= b on floats                                                        *)
LessEq(a, b) == a.kind # "nan" /\ b.kind # "nan" /\ ~Less(b, a)

(* str.strip()                                                             *)
RECURSIVE lstrip(_)
lstrip(s) == IF s # <<>> /\ IsSpace(Head(s)) THEN lstrip(Tail(s)) ELSE s

RECURSIVE rstrip(_)
rstrip(s) ==
    IF s # <<>> /\ IsSpace(s[Len(s)]) THEN rstrip(SubSeq(s, 1, Len(s) - 1)) ELSE s

strip(s) == rstrip(lstrip(s))

(* the letters that the float literals nan, inf and the exponent use       *)
lower(ch) ==
    CASE ch = "N" -> "n" [] ch = "A" -> "a" [] ch = "I" -> "i" [] ch = "F" -> "f"
      [] ch = "T" -> "t" [] ch = "Y" -> "y" [] ch = "E" -> "e" [] OTHER -> ch

(* digits with single underscores allowed between digits                   *)
IsDigitRun(ds) ==
    /\ ds # <<>>
    /\ \A i \in 1..Len(ds) :
          \/ IsDigit(ds[i])
          \/ /\ ds[i] = "_"
             /\ 1 < i /\ i < Len(ds)
             /\ IsDigit(ds[i - 1]) /\ IsDigit(ds[i + 1])

(* the decimal point of a numeral: its position, or 0                      *)
PointAt(s) ==
    IF \E i \in 1..Len(s) : s[i] = "."
    THEN CHOOSE i \in 1..Len(s) : s[i] = "." /\ \A j \in 1..(i - 1) : s[j] # "."
    ELSE 0

(* whole.frac, either part possibly empty but not both: its value, or     *)
(* ValueError                                                              *)
NumeralOf(whole, frac) ==
    IF /\ whole # <<>> \/ frac # <<>>
       /\ whole = <<>> \/ IsDigitRun(whole)
       /\ frac = <<>> \/ IsDigitRun(frac)
    THEN Num(DigitsValue(SelectSeq(whole \o frac, IsDigit)),
             Len(SelectSeq(frac, IsDigit)))
    ELSE Raise("ValueError")

(* the numeral s split at its decimal point p                              *)
SplitAt(s, p) ==
    IF p = 0 THEN NumeralOf(s, <<>>)
    ELSE NumeralOf(SubSeq(s, 1, p - 1), SubSeq(s, p + 1, Len(s)))

(* a numeral without sign and exponent: digits, digits. , digits.digits or *)
(* .digits                                                                 *)
Mantissa(s) == SplitAt(s, PointAt(s))

(* mantissa * 10^k                                                         *)
Scale10(m, k) ==
    IF k <= m.e THEN Num(m.c, m.e - k) ELSE Num(m.c * Pow10(k - m.e), 0)

(* the float of a number m with its sign                                   *)
Signed(m, neg) ==
    IF IsExc(m) THEN PyRaise("ValueError")
    ELSE IF neg /\ m.c = 0 THEN PyNegZero
    ELSE PyFloat(Num(IF neg THEN -m.c ELSE m.c, m.e))

(* mantissa and exponent put together                                      *)
ScaledFloat(m, expo, neg) ==
    IF IsExc(m) \/ IsExc(expo) THEN PyRaise("ValueError")
    ELSE Signed(Scale10(m, expo.c), neg)

(* the first e of a numeral: its position, or one past the end             *)
ExponentAt(body) ==
    IF \E i \in 1..Len(body) : body[i] = "e"
    THEN CHOOSE i \in 1..Len(body) : body[i] = "e" /\ \A j \in 1..(i - 1) : body[j] # "e"
    ELSE Len(body) + 1

(* a numeral with an optional exponent after position ei                   *)
FloatOfNumeral(body, ei, neg) ==
    IF ei > Len(body) THEN Signed(Mantissa(body), neg)
    ELSE ScaledFloat(Mantissa(SubSeq(body, 1, ei - 1)),
                     py_int(SubSeq(body, ei + 1, Len(body))), neg)

(* what follows the sign: nan, inf, infinity or a numeral                  *)
FloatOfBody(body, neg) ==
    IF body = <<"n", "a", "n">> THEN PyNaN
    ELSE IF body \in {<<"i", "n", "f">>, <<"i", "n", "f", "i", "n", "i", "t", "y">>}
    THEN IF neg THEN PyNegInf ELSE PyInf
    ELSE FloatOfNumeral(body, ExponentAt(body), neg)

(* an optional sign and what follows it                                    *)
FloatOfStripped(t) ==
    IF t # <<>> /\ Head(t) \in {"+", "-"}
    THEN FloatOfBody(Tail(t), Head(t) = "-")
    ELSE FloatOfBody(t, FALSE)

lowered(s) == [i \in 1..Len(s) |-> lower(s[i])]

(* float(text): surrounding whitespace is dropped, then an optional sign   *)
(* and nan, inf, infinity in any case, or a decimal numeral with an        *)
(* optional exponent; anything else raises ValueError                      *)
float_of_str(text) == FloatOfStripped(lowered(strip(text)))

(* float(x)                                                                *)
py_float(x) ==
    CASE x.kind = "str" -> float_of_str(x.text)
      [] x.kind \in {"float", "-0.0", "nan", "inf", "-inf"} -> x
      [] x.kind = "bigint" -> PyRaise("OverflowError")
      [] OTHER -> PyRaise("TypeError")

(* bool(x) is false for None, the empty str, the empty list and zero       *)
Falsy(x) ==
    \/ x.kind \in {"None", "list"}
    \/ x.kind = "str" /\ x.text = <<>>
    \/ x.kind \in {"float", "-0.0"} /\ x.num.c = 0

(* a pattern that drops the minus sign as well                             *)
IsAmountChar_Unsigned(ch) == IsDigit(ch) \/ ch = "."

(* re.sub(r'[^\d.-]', '', text): only digits, points and minus signs stay  *)
IsAmountChar(ch) == IsDigit(ch) \/ ch \in {".", "-"}

cleaned(text) == SelectSeq(text, IsAmountChar)

(* a parser whose ValueError is not handled                                *)
RoundedAmount_Unhandled(amount) ==
    IF amount.kind = "exc" THEN amount ELSE PyFloat(round2(amount.num))

(* round(amount, 2), or 0.0 after a ValueError                             *)
RoundedAmount(amount) ==
    IF amount.kind = "exc" THEN PyFloat(Num(0, 0))
    ELSE IF amount.kind = "-0.0" THEN PyNegZero
    ELSE Signed(round2(Num(Abs(amount.num.c), amount.num.e)), amount.num.c < 0)

(* float(cleaned): no letter is left, so this is an optional minus sign    *)
(* and a numeral, or ValueError                                            *)
parse_currency_input(input_str) ==
    IF Falsy(input_str) THEN PyFloat(Num(0, 0))
    ELSE RoundedAmount(float_of_str(cleaned(input_str.text)))

(* round(percentage / 100, 4)                                              *)
round4(d) ==
    IF d.e <= 4 THEN ToFloat(d)
    ELSE LET u == Pow10(d.e - 4)
             q == Abs(d.c) \div u
             r == Abs(d.c) % u
             m == IF 2 * r > u \/ (2 * r = u /\ q % 2 = 1) THEN q + 1 ELSE q
         IN  ToFloat(Num(IF d.c < 0 THEN -m ELSE m, 4))

RoundedRate(percentage) ==
    IF percentage.kind = "exc" THEN PyFloat(Num(0, 0))
    ELSE IF percentage.kind = "-0.0" THEN PyNegZero
    ELSE Signed(round4(Num(Abs(percentage.num.c), percentage.num.e + 2)),
                percentage.num.c < 0)

parse_percentage_input(input_str) ==
    IF Falsy(input_str) THEN PyFloat(Num(0, 0))
    ELSE RoundedRate(float_of_str(cleaned(input_str.text)))

(* what a validator returns: the pair (ok, reason), or the exception that  *)
(* leaves it                                                               *)
Returned(ok, reason) == [raised |-> "", ok |-> ok, reason |-> reason, value |-> PyNone]

Raised(name) == [raised |-> name, ok |-> FALSE, reason |-> "", value |-> PyNone]

Value(v) == [raised |-> "", ok |-> TRUE, reason |-> "", value |-> v]

(* except (ValueError, TypeError): every other exception leaves the        *)
(* validator                                                               *)
Caught(x) == x.kind = "exc" /\ x.num.x \in {"ValueError", "TypeError"}

AmountVerdict(parsed_amount) ==
    IF Caught(parsed_amount) THEN Returned(FALSE, "Invalid amount format")
    ELSE IF parsed_amount.kind = "exc" THEN Raised(parsed_amount.num.x)
    ELSE IF Less(parsed_amount, PyFloat(MIN_AMOUNT))
    THEN Returned(FALSE, "Amount must be at least $0.01")
    ELSE IF Less(PyFloat(MAX_AMOUNT), parsed_amount)
    THEN Returned(FALSE, "Amount cannot exceed $999,999.99")
    ELSE Returned(TRUE, "")

validate_amount(amount) ==
    AmountVerdict(IF amount.kind = "str" THEN parse_currency_input(amount)
                  ELSE py_float(amount))

QuantityVerdict(qty) ==
    IF Caught(qty) THEN Returned(FALSE, "Invalid quantity format")
    ELSE IF qty.kind = "exc" THEN Raised(qty.num.x)
    ELSE IF LessEq(qty, PyFloat(Num(0, 0)))
    THEN Returned(FALSE, "Quantity must be greater than 0")
    ELSE IF Less(PyFloat(MaxQuantity), qty)
    THEN Returned(FALSE, "Quantity cannot exceed 10,000")
    ELSE Returned(TRUE, "")

(* a value that is not a str is compared as it is: None and a list raise   *)
(* TypeError in qty <= 0, an int of any size compares                      *)
validate_quantity(quantity) ==
    QuantityVerdict(CASE quantity.kind = "str" -> py_float(quantity)
                      [] quantity.kind \in {"None", "list"} -> PyRaise("TypeError")
                      [] quantity.kind = "bigint" -> PyInf
                      [] OTHER -> quantity)

TaxRateVerdict(rate) ==
    IF Caught(rate) THEN Returned(FALSE, "Invalid tax rate format")
    ELSE IF rate.kind = "exc" THEN Raised(rate.num.x)
    ELSE IF Less(rate, PyFloat(Num(0, 0)))
    THEN Returned(FALSE, "Tax rate cannot be negative")
    ELSE IF Less(PyFloat(Num(1, 0)), rate)
    THEN Returned(FALSE, "Tax rate cannot exceed 100%")
    ELSE Returned(TRUE, "")

validate_tax_rate(tax_rate) ==
    TaxRateVerdict(IF tax_rate.kind = "str" THEN parse_percentage_input(tax_rate)
                   ELSE py_float(tax_rate))

CURRENCY_SYMBOLS(currency) ==
    CASE currency = "USD" -> <<"$">>
      [] currency = "EUR" -> <<"€">>
      [] currency = "GBP" -> <<"£">>
      [] currency = "CAD" -> <<"C", "$">>
      [] currency = "AUD" -> <<"A", "$">>
      [] OTHER -> <<"$">>

(* the ',' of a format specification: a comma before every group of three  *)
(* digits, counted from the right                                          *)
RECURSIVE GroupThousands(_)
GroupThousands(ds) ==
    IF Len(ds) <= 3 THEN ds
    ELSE GroupThousands(SubSeq(ds, 1, Len(ds) - 3)) \o <<",">>
         \o SubSeq(ds, Len(ds) - 2, Len(ds))

(* k cents written with a grouped whole part, a point and two decimals     *)
CentsText(k) ==
    GroupThousands(Digits(k \div 100)) \o <<".">> \o ZeroPad(Digits(k % 100), 2)

CentsOf(r) == r.c * Pow10(2 - r.e)

(* f"{x:,.2f}" of a float x >= 0: x rounded to two decimals, the whole     *)
(* part grouped, a point and exactly two decimals                          *)
Fixed2(d) == CentsText(CentsOf(round2(d)))

format_currency(amount, currency) ==
    LET symbol == CURRENCY_SYMBOLS(currency)
    IN  CASE amount.kind \in {"None", "list", "str"} ->
                 Value(PyStr(symbol \o <<"0", ".", "0", "0">>))
          [] amount.kind = "bigint" -> Raised("OverflowError")
          [] amount.kind = "-0.0" ->
                 Value(PyStr(symbol \o <<"-", "0", ".", "0", "0">>))
          [] amount.kind = "nan" -> Value(PyStr(symbol \o <<"n", "a", "n">>))
          [] amount.kind = "inf" -> Value(PyStr(symbol \o <<"i", "n", "f">>))
          [] amount.kind = "-inf" -> Value(PyStr(<<"-">> \o symbol \o <<"i", "n", "f">>))
          [] OTHER ->
                 IF amount.num.c < 0
                 THEN Value(PyStr(<<"-">> \o symbol
                                  \o Fixed2(Num(-amount.num.c, amount.num.e))))
                 ELSE Value(PyStr(symbol \o Fixed2(amount.num)))

(* the values the validators and the formatter are called with: amounts    *)
(* and quantities at and around every bound, with and without thousands    *)
(* separators, and values that are not numbers; no float lies halfway      *)
(* between two cents, where the binary value decides the rounding          *)
ValFloats ==
    {Num(0, 0), Num(9, 3), Num(1, 2), Num(5, 1), Num(1, 0), Num(101, 2),
     Num(-5, 0), Num(-1, 1), Num(-1, 2), Num(10000, 0), Num(1000001, 2),
     Num(99999999, 2), Num(1000000, 0), Num(123456789, 2), Num(-123456, 2),
     Num(-1234567, 2), Num(123456, 2), Num(99999, 2), Num(-123456789, 2),
     Num(150, 1), Num(-5, 1)}

ValTexts ==
    {<<>>, <<"a", "b", "c">>, <<"n", "a", "n">>, <<"i", "n", "f">>,
     <<"0", ".", "0", "1">>, <<"$", "0", ".", "0", "0">>,
     <<"$", "1", ",", "0", "0", "0", ".", "0", "0">>,
     <<"9", "9", "9", "9", "9", "9", ".", "9", "9">>,
     <<"1", ",", "0", "0", "0", ",", "0", "0", "0", ".", "0", "0">>,
     <<"-", "$", "5", ".", "0", "0">>, <<"-", "5">>, <<" ", "5", " ">>,
     <<"1", "e", "3">>, <<"1", "_", "0", "0", "0">>, <<"1", "0", "0", "0", "0">>,
     <<"1", "0", "0", "0", "1">>, <<"0">>, <<"8", ".", "5", "%">>,
     <<"1", "0", "0">>, <<"1", "5", "0">>, <<"0", ".", "0", "0", "6">>,
     <<"1", ".", "2", ".", "3">>, <<"-", "0">>, <<"-">>, <<"5", "-">>,
     <<"-", ".", "5">>, <<"5", ".">>, <<".">>, <<"-", "0", ".", "0", "0", "1">>}

ValArgs ==
    {PyFloat(v) : v \in ValFloats} \cup {PyStr(s) : s \in ValTexts}
    \cup {PyNone, PyEmptyList, PyNaN, PyInf, PyNegInf, PyNegZero, PyBigInt}

Currencies == {"USD", "EUR", "GBP", "CAD", "AUD", "XYZ"}

NoReturn == [raised |-> "", ok |-> FALSE, reason |-> "", value |-> PyNone]

InitVal ==
    /\ valOp = "none"
    /\ valArg \in ValArgs
    /\ valCurrency = ""
    /\ valRet = NoReturn

IdleVal ==
    /\ valOp = "none"
    /\ valArg = PyNone
    /\ valCurrency = ""
    /\ valRet = NoReturn

CallValidateAmount ==
    /\ valOp = "none"
    /\ valOp' = "validate_amount"
    /\ valRet' = validate_amount(valArg)
    /\ UNCHANGED <<valArg, valCurrency>>
    /\ UNCHANGED notVal

CallValidateQuantity ==
    /\ valOp = "none"
    /\ valOp' = "validate_quantity"
    /\ valRet' = validate_quantity(valArg)
    /\ UNCHANGED <<valArg, valCurrency>>
    /\ UNCHANGED notVal

CallValidateTaxRate ==
    /\ valOp = "none"
    /\ valOp' = "validate_tax_rate"
    /\ valRet' = validate_tax_rate(valArg)
    /\ UNCHANGED <<valArg, valCurrency>>
    /\ UNCHANGED notVal

CallFormatCurrency ==
    \E currency \in Currencies :
        /\ valOp = "none"
        /\ valOp' = "format_currency"
        /\ valCurrency' = currency
        /\ valRet' = format_currency(valArg, currency)
        /\ UNCHANGED valArg
        /\ UNCHANGED notVal

(* parse_currency_input takes the text of an entry field                   *)
CallParseCurrencyInput ==
    /\ valOp = "none"
    /\ valArg.kind = "str"
    /\ valOp' = "parse_currency_input"
    /\ valRet' = Value(parse_currency_input(valArg))
    /\ UNCHANGED <<valArg, valCurrency>>
    /\ UNCHANGED notVal

CallParsePercentageInput ==
    /\ valOp = "none"
    /\ valArg.kind = "str"
    /\ valOp' = "parse_percentage_input"
    /\ valRet' = Value(parse_percentage_input(valArg))
    /\ UNCHANGED <<valArg, valCurrency>>
    /\ UNCHANGED notVal

NextVal ==
    \/ CallParsePercentageInput
    \/ CallValidateAmount
    \/ CallValidateQuantity
    \/ CallValidateTaxRate
    \/ CallFormatCurrency
    \/ CallParseCurrencyInput

-----------------------------------------------------------------------------
(* The item dialog and the items of a saved invoice (gui/invoice_form.py)  *)

MaxLineItems == 2

(* what the user types into the entry fields of the item dialog            *)
DescriptionTexts == {<<>>, <<" ">>, <<"W", "o", "r", "k">>}

QuantityTexts == {<<"0">>, <<"1">>, <<"2", "0", "0", "0", "0">>, <<"a", "b", "c">>}

RateTexts == {<<"-", "1">>, <<"0">>, <<"1", "5", "0">>}

NoResult == [description |-> <<>>, quantity |-> PyNone, rate |-> PyNone]

(* the checks of ItemDialog._save_item on the stripped description and    *)
(* the two floats: the error shown, or the result of the dialog            *)
DialogOutcome(description, quantity, rate) ==
    IF description = <<>>
    THEN [error |-> "Description is required.", result |-> NoResult]
    ELSE IF quantity.kind = "exc" \/ rate.kind = "exc"
    THEN [error |-> "Quantity and rate must be valid numbers.", result |-> NoResult]
    ELSE IF LessEq(quantity, PyFloat(Num(0, 0)))
    THEN [error |-> "Quantity must be greater than 0.", result |-> NoResult]
    ELSE IF Less(rate, PyFloat(Num(0, 0)))
    THEN [error |-> "Rate cannot be negative.", result |-> NoResult]
    ELSE [error |-> "",
          result |-> [description |-> description, quantity |-> quantity,
                      rate |-> rate]]

ItemDialog_save_item(description_var, quantity_var, rate_var) ==
    DialogOutcome(strip(description_var), float_of_str(quantity_var),
                  float_of_str(rate_var))

(* the verdict of the first check that fails                               *)
FirstFailure(description, q, a) ==
    IF description = <<>> THEN Returned(FALSE, "Description is required")
    ELSE IF ~q.ok THEN q
    ELSE IF ~a.ok THEN a
    ELSE Returned(TRUE, "")

(* the three checks that ValidationEngine.validate_invoice_items makes on  *)
(* one item, a dict; the item number that prefixes the reason is left out  *)
ItemVerdict(item) ==
    FirstFailure(strip(item.description), validate_quantity(item.quantity),
                 validate_amount(item.rate))

FirstOf(S) == CHOOSE i \in S : \A j \in S : i <= j

(* the loop returns at the first item that fails a check                   *)
validate_invoice_items(items) ==
    IF items = <<>>
    THEN Returned(FALSE, "Invoice must contain at least one item")
    ELSE IF \A i \in 1..Len(items) : ItemVerdict(items[i]).ok THEN Returned(TRUE, "")
    ELSE ItemVerdict(items[FirstOf({i \in 1..Len(items) : ~ItemVerdict(items[i]).ok})])

InitLine ==
    /\ lineItems = <<>>
    /\ savedLines = <<>>
    /\ lineHandler = "__init__"
    /\ lineError = ""

(* InvoiceFormWindow._add_item: the dialog runs until it is closed; a      *)
(* result is appended to self.items                                        *)
LineAddItem ==
    \E d \in DescriptionTexts, q \in QuantityTexts, r \in RateTexts :
        LET dialog == ItemDialog_save_item(d, q, r)
        IN  /\ Len(lineItems) < MaxLineItems
            /\ lineItems' = IF dialog.error = "" THEN Append(lineItems, dialog.result)
                            ELSE lineItems
            /\ lineError' = dialog.error
            /\ lineHandler' = "_add_item"
            /\ UNCHANGED savedLines
            /\ UNCHANGED notLine

(* InvoiceFormWindow._edit_selected_item: the result of the dialog         *)
(* replaces the fields of the selected item                                *)
LineEditItem ==
    \E i \in 1..Len(lineItems), d \in DescriptionTexts, q \in QuantityTexts,
       r \in RateTexts :
        LET dialog == ItemDialog_save_item(d, q, r)
        IN  /\ lineItems' = IF dialog.error = ""
                            THEN [lineItems EXCEPT ![i] = dialog.result]
                            ELSE lineItems
            /\ lineError' = dialog.error
            /\ lineHandler' = "_edit_selected_item"
            /\ UNCHANGED savedLines
            /\ UNCHANGED notLine

(* InvoiceFormWindow._remove_selected_item, confirmed                      *)
LineRemoveItem ==
    \E i \in 1..Len(lineItems) :
        /\ lineItems' = RemoveAt(lineItems, i)
        /\ lineError' = ""
        /\ lineHandler' = "_remove_selected_item"
        /\ UNCHANGED savedLines
        /\ UNCHANGED notLine

(* InvoiceFormWindow._save_invoice: _validate_form asks for at least one   *)
(* item and for nothing about the items themselves; the items of the form  *)
(* become the items of the saved invoice                                   *)
LineSaveInvoice ==
    /\ IF lineItems = <<>>
       THEN /\ lineError' = "Invoice must contain at least one item."
            /\ UNCHANGED savedLines
       ELSE /\ lineError' = ""
            /\ savedLines' = lineItems
    /\ lineHandler' = "_save_invoice"
    /\ UNCHANGED lineItems
    /\ UNCHANGED notLine

(* ValidationEngine.validate_invoice_items called with the items of the    *)
(* form                                                                    *)
CallValidateInvoiceItems ==
    /\ lineError' = validate_invoice_items(lineItems).reason
    /\ lineHandler' = "validate_invoice_items"
    /\ UNCHANGED <<lineItems, savedLines>>
    /\ UNCHANGED notLine

NextLine ==
    \/ LineAddItem
    \/ LineEditItem
    \/ LineRemoveItem
    \/ LineSaveInvoice
    \/ CallValidateInvoiceItems

-----------------------------------------------------------------------------
(* The tax rate of the stored invoices: the settings tab                   *)
(* (gui/main_window.py), the tax combobox of the invoice form              *)
(* (gui/invoice_form.py) and the rows that save_invoice writes.            *)

(* the most invoices the store holds                                       *)
MaxTaxInvoices == 2

(* the texts typed into the default tax rate entry of the settings tab     *)
DefaultRateTexts == {<<"0">>, <<"8", ".", "5">>, <<"1", "5", "0">>, <<"-", "5">>,
                     <<"a", "b", "c">>}

(* the texts typed into the tax combobox, which is not read-only           *)
TypedTaxTexts == {"150%"}

(* the items of a sample invoice: 10 x 150.00 and 1 x 500.00               *)
SampleItems == <<InvoiceItem(Num(10, 0), Num(150, 0), Num(0, 0)),
                 InvoiceItem(Num(1, 0), Num(500, 0), Num(0, 0))>>

(* the tax rate that create_sample_data gives its invoices                 *)
SampleTaxRate == Num(875, 4)

(* a row of the invoices table: save_invoice calls calculate_totals and    *)
(* writes the rate and the totals                                          *)
TaxRow(tax_rate) ==
    [tax_rate |-> tax_rate, totals |-> calculate_totals(SampleItems, tax_rate)]

(* _save_settings: float(text) / 100, and 0.0 on a ValueError              *)
DefaultRateOf(text) ==
    LET f == float_of_str(text)
    IN  IF f.kind = "float" THEN ToFloat(Num(f.num.c, f.num.e + 2)) ELSE Num(0, 0)

(* the selection a new form starts with: the first name in table order     *)
(* whose rate is within 0.001 of the default rate, else "None"             *)
DefaultTaxNameOf(default_rate) ==
    IF TaxNameOf(default_rate) = "Custom" THEN "None" ELSE TaxNameOf(default_rate)

(* as SavedTaxRate, but a name outside the table falls back to the default *)
(* rate of the settings                                                    *)
SavedTaxRate_Default(tax_rate_name, default_rate) ==
    IF tax_rate_name \in DOMAIN DEFAULT_TAX_RATES
    THEN DEFAULT_TAX_RATES[tax_rate_name] ELSE default_rate

(* _save_invoice: DEFAULT_TAX_RATES.get(tax_rate_name, 0.0)                *)
SavedTaxRate(tax_rate_name, default_rate) ==
    IF tax_rate_name \in DOMAIN DEFAULT_TAX_RATES
    THEN DEFAULT_TAX_RATES[tax_rate_name] ELSE Num(0, 0)

ClosedTaxForm == [open |-> FALSE, invoice_id |-> 0, tax_name |-> "",
                  default_rate |-> Num(0, 0)]

(* the store after create_sample_data: an invoice at 8.75 percent          *)
InitTax ==
    /\ taxDefault = Num(0, 0)
    /\ taxRows = <<TaxRow(SampleTaxRate)>>
    /\ taxForm = ClosedTaxForm
    /\ taxHandler = "create_sample_data"

(* MainWindow._save_settings                                               *)
TaxSaveSettings ==
    \E text \in DefaultRateTexts :
        /\ taxDefault' = DefaultRateOf(text)
        /\ taxHandler' = "_save_settings"
        /\ UNCHANGED <<taxRows, taxForm, notTax>>

(* InvoiceFormWindow.__init__ without an invoice                           *)
TaxOpenNew ==
    /\ ~taxForm.open
    /\ taxForm' = [open |-> TRUE, invoice_id |-> 0,
                   tax_name |-> DefaultTaxNameOf(taxDefault),
                   default_rate |-> taxDefault]
    /\ taxHandler' = "_create_invoice_section"
    /\ UNCHANGED <<taxDefault, taxRows, notTax>>

(* InvoiceFormWindow.__init__ with a stored invoice: _load_invoice         *)
TaxOpenInvoice ==
    \E i \in 1..Len(taxRows) :
        /\ ~taxForm.open
        /\ taxForm' = [open |-> TRUE, invoice_id |-> i,
                       tax_name |-> TaxNameOf(taxRows[i].tax_rate),
                       default_rate |-> taxDefault]
        /\ taxHandler' = "_load_invoice"
        /\ UNCHANGED <<taxDefault, taxRows, notTax>>

(* an entry of the tax combobox is selected: _on_tax_rate_changed          *)
TaxSelect ==
    \E n \in DOMAIN DEFAULT_TAX_RATES :
        /\ taxForm.open
        /\ taxForm' = [taxForm EXCEPT !.tax_name = n]
        /\ taxHandler' = "_on_tax_rate_changed"
        /\ UNCHANGED <<taxDefault, taxRows, notTax>>

(* a text is typed into the tax combobox                                   *)
TaxType ==
    \E text \in TypedTaxTexts :
        /\ taxForm.open
        /\ taxForm' = [taxForm EXCEPT !.tax_name = text]
        /\ taxHandler' = "tax_combo"
        /\ UNCHANGED <<taxDefault, taxRows, notTax>>

(* InvoiceFormWindow._save_invoice with DatabaseManager.save_invoice       *)
TaxSave ==
    /\ taxForm.open
    /\ taxForm.invoice_id = 0 => Len(taxRows) < MaxTaxInvoices
    /\ LET row == TaxRow(SavedTaxRate(taxForm.tax_name, taxForm.default_rate))
       IN  IF taxForm.invoice_id = 0
           THEN /\ taxRows' = Append(taxRows, row)
                /\ taxForm' = [taxForm EXCEPT !.invoice_id = Len(taxRows) + 1]
           ELSE /\ taxRows' = [taxRows EXCEPT ![taxForm.invoice_id] = row]
                /\ UNCHANGED taxForm
    /\ taxHandler' = "_save_invoice"
    /\ UNCHANGED <<taxDefault, notTax>>

(* the form window is closed                                               *)
TaxClose ==
    /\ taxForm.open
    /\ taxForm' = ClosedTaxForm
    /\ taxHandler' = "destroy"
    /\ UNCHANGED <<taxDefault, taxRows, notTax>>

NextTax ==
    \/ TaxSaveSettings
    \/ TaxOpenNew
    \/ TaxOpenInvoice
    \/ TaxSelect
    \/ TaxType
    \/ TaxSave
    \/ TaxClose

-----------------------------------------------------------------------------
(* The client record (database/models.py): the property full_address.      *)
(* A text is a sequence of one-character strings; "\n" is the newline.     *)

StreetTexts == {<<>>, <<"1", " ", "A">>, <<"1", " ", "A", "\n", "B">>}

CityTexts == {<<>>, <<"B", "x">>, <<" ">>}

StateTexts == {<<>>, <<"N", "Y">>}

ZipTexts == {<<>>, <<"0", "7">>}

CountryTexts == {<<>>, <<"U", "K">>, <<"O">>}

Clients ==
    [address : StreetTexts, city : CityTexts, state : StateTexts,
     zip_code : ZipTexts, country : CountryTexts]

(* sep.join(parts)                                                         *)
RECURSIVE join(_, _)
join(sep, parts) ==
    IF parts = <<>> THEN <<>>
    ELSE IF Len(parts) = 1 THEN parts[1]
    ELSE parts[1] \o sep \o join(sep, Tail(parts))

(* as city_state_zip, but an empty part is appended as well                *)
city_state_zip_All(c) == <<c.city, c.state, c.zip_code>>

(* the list city_state_zip: city, state and zip_code, each appended when   *)
(* it is truthy                                                            *)
city_state_zip(c) ==
    (IF c.city # <<>> THEN <<c.city>> ELSE <<>>)
    \o (IF c.state # <<>> THEN <<c.state>> ELSE <<>>)
    \o (IF c.zip_code # <<>> THEN <<c.zip_code>> ELSE <<>>)

(* the property Client.full_address                                        *)
full_address(c) ==
    LET address_parts ==
            (IF c.address # <<>> THEN <<c.address>> ELSE <<>>)
            \o (IF city_state_zip(c) # <<>>
                THEN <<join(<<",", " ">>, city_state_zip(c))>> ELSE <<>>)
            \o (IF c.country # <<>> THEN <<c.country>> ELSE <<>>)
    IN  join(<<"\n">>, address_parts)

NoClient == [address |-> <<>>, city |-> <<>>, state |-> <<>>, zip_code |-> <<>>,
             country |-> <<>>]

InitClient ==
    /\ cliOp = "none"
    /\ cliArg = NoClient
    /\ cliRet = <<>>

(* a read of client.full_address                                           *)
CallFullAddress ==
    \E c \in Clients :
        /\ cliOp' = "full_address"
        /\ cliArg' = c
        /\ cliRet' = full_address(c)
        /\ UNCHANGED notClient

NextClient == CallFullAddress

-----------------------------------------------------------------------------
(* Two line items built from the same quantity and rate and from different *)
(* amounts (database/models.py), each put on an invoice of its own,        *)
(* rendered and serialized.                                                *)

PairQuantities == {Num(1, 0), Num(10, 0)}

PairRates == {Num(0, 0), Num(125, 3), Num(150, 0)}

(* the amount given to the constructor: none (0.0), the product of an      *)
(* item of the model, and amounts that no item of the model has            *)
PairAmounts == {Num(0, 0), Num(150, 0), Num(999, 0), Num(1, 2)}

PairTaxRates == {Num(0, 0), Num(85, 3)}

(* what the program derives from one item: the field amount, the totals of *)
(* an invoice that holds the item, the line total that the form and the    *)
(* PDF print, and the amount that to_dict writes                           *)
ItemOutcome(item, tax_rate) ==
    [amount |-> item.amount,
     totals |-> calculate_totals(<<item>>, tax_rate),
     line_total |-> format_currency(PyFloat(ItemTotal(item)), <<"U", "S", "D">>),
     serialized |-> ItemTotal(item)]

NoArgs == [quantity |-> Num(0, 0), rate |-> Num(0, 0), amountA |-> Num(0, 0),
           amountB |-> Num(0, 0), tax_rate |-> Num(0, 0)]

InitItem ==
    /\ itemOp = "none"
    /\ itemArgs = NoArgs
    /\ itemA = ItemOutcome(InvoiceItem(Num(0, 0), Num(0, 0), Num(0, 0)), Num(0, 0))
    /\ itemB = ItemOutcome(InvoiceItem(Num(0, 0), Num(0, 0), Num(0, 0)), Num(0, 0))

(* InvoiceItem(quantity=q, rate=r, amount=a) and the same with amount=b    *)
ConstructPair ==
    \E q \in PairQuantities, r \in PairRates, a \in PairAmounts, b \in PairAmounts,
       tax_rate \in PairTaxRates :
        /\ a # b
        /\ itemOp' = "InvoiceItem"
        /\ itemArgs' = [quantity |-> q, rate |-> r, amountA |-> a, amountB |-> b,
                        tax_rate |-> tax_rate]
        /\ itemA' = ItemOutcome(InvoiceItem(q, r, a), tax_rate)
        /\ itemB' = ItemOutcome(InvoiceItem(q, r, b), tax_rate)
        /\ UNCHANGED notItem

NextItem == ConstructPair

-----------------------------------------------------------------------------
(* The record store (database/db_manager.py): the clients table, the       *)
(* invoices table and the stored next_invoice_number, under the calls      *)
(* save_client, delete_client, save_invoice and delete_invoice.            *)
(*                                                                         *)
(* storeCall is the last call and the client id it named (0 for none).     *)
(* A row of clients is [id, name], a row of invoices is                    *)
(* [id, invoice_number, client_id]; the ids are AUTOINCREMENT, so an id is *)
(* never given twice.  An id of 0 in an argument stands for None.          *)

(* the most rows ever inserted into the clients table                      *)
MaxStoreClients == 2

(* the most rows ever inserted into the invoices table                     *)
MaxStoreInvoices == 2

(* the stored next_invoice_number is not advanced beyond this              *)
MaxStoreCounter == 3

ClientNames == {"A", "B"}

(* the invoice numbers of the arguments: none, and two that the format     *)
(* "INV-{:04d}" also generates                                             *)
StoreNumbers == {<<>>, FormatNumber(1), FormatNumber(2)}

ClientArgs == [id : 0..MaxStoreClients, name : ClientNames]

InvoiceArgs == [id : 0..MaxStoreInvoices, invoice_number : StoreNumbers,
                client_id : 0..MaxStoreClients]

(* get_client(client_id) finds a row                                       *)
ClientExists(clients, client_id) == \E c \in clients : c.id = client_id

(* as HasInvoices, but the count is never above 0                          *)
HasInvoices_Never(invoices, client_id) == FALSE

(* delete_client: the count of the invoices with this client_id is        *)
(* above 0                                                                 *)
HasInvoices(invoices, client_id) == \E i \in invoices : i.client_id = client_id

(* the store after a call, and the error the call raised ("" for none)     *)
Outcome(clients, invoices, counter, error) ==
    [clients |-> clients, invoices |-> invoices, counter |-> counter,
     error |-> error]

(* DatabaseManager.save_client: UPDATE for a client with an id, INSERT     *)
(* otherwise; the UNIQUE name raises IntegrityError                        *)
save_client(st, client, new_id) ==
    IF client.id # 0
    THEN IF ~ClientExists(st.clients, client.id)
         THEN Outcome(st.clients, st.invoices, st.counter, "")
         ELSE IF \E c \in st.clients : c.id # client.id /\ c.name = client.name
         THEN Outcome(st.clients, st.invoices, st.counter,
                      "A client with this name already exists.")
         ELSE Outcome({c \in st.clients : c.id # client.id} \cup {client},
                      st.invoices, st.counter, "")
    ELSE IF \E c \in st.clients : c.name = client.name
         THEN Outcome(st.clients, st.invoices, st.counter,
                      "A client with this name already exists.")
         ELSE Outcome(st.clients \cup {[id |-> new_id, name |-> client.name]},
                      st.invoices, st.counter, "")

(* DatabaseManager.delete_client                                           *)
delete_client(st, client_id) ==
    IF HasInvoices(st.invoices, client_id)
    THEN Outcome(st.clients, st.invoices, st.counter,
                 "Cannot delete client with existing invoices")
    ELSE Outcome({c \in st.clients : c.id # client_id}, st.invoices, st.counter, "")

(* the UPDATE or INSERT of save_invoice with the number the invoice has by *)
(* then, against the counter as stored by then; the UNIQUE invoice_number  *)
(* raises IntegrityError                                                   *)
WriteInvoice(st, inv, number, counter, new_id) ==
    IF inv.id # 0
    THEN IF ~(\E i \in st.invoices : i.id = inv.id)
         THEN Outcome(st.clients, st.invoices, counter, "")
         ELSE IF \E i \in st.invoices : i.id # inv.id /\ i.invoice_number = number
         THEN Outcome(st.clients, st.invoices, counter,
                      "Invoice number must be unique")
         ELSE Outcome(st.clients,
                      {i \in st.invoices : i.id # inv.id}
                          \cup {[id |-> inv.id, invoice_number |-> number,
                                 client_id |-> inv.client_id]},
                      counter, "")
    ELSE IF \E i \in st.invoices : i.invoice_number = number
         THEN Outcome(st.clients, st.invoices, counter,
                      "Invoice number must be unique")
         ELSE Outcome(st.clients,
                      st.invoices \cup {[id |-> new_id, invoice_number |-> number,
                                         client_id |-> inv.client_id]},
                      counter, "")

(* DatabaseManager.save_invoice: the client is looked up; a new invoice    *)
(* without a number takes the next number, and the advanced counter is     *)
(* saved with save_app_settings, which commits; then the row is written    *)
save_invoice(st, inv, new_id) ==
    IF inv.client_id = 0 \/ ~ClientExists(st.clients, inv.client_id)
    THEN Outcome(st.clients, st.invoices, st.counter, "Valid client is required")
    ELSE IF inv.id = 0 /\ inv.invoice_number = <<>>
    THEN WriteInvoice(st, inv, get_next_invoice_number(st.counter).number,
                      get_next_invoice_number(st.counter).next_invoice_number,
                      new_id)
    ELSE WriteInvoice(st, inv, inv.invoice_number, st.counter, new_id)

(* DatabaseManager.delete_invoice                                          *)
delete_invoice(st, invoice_id) ==
    Outcome(st.clients, {i \in st.invoices : i.id # invoice_id}, st.counter, "")

(* a new database: no rows, and AppSettings() has next_invoice_number 1    *)
InitStore ==
    /\ dbStore = Outcome({}, {}, 1, "")
    /\ storeIds = [client |-> 1, invoice |-> 1]
    /\ storeCall = [op |-> "__init__", client_id |-> 0]

CallSaveClient ==
    \E client \in ClientArgs :
        /\ client.id = 0 => storeIds.client <= MaxStoreClients
        /\ dbStore' = save_client(dbStore, client, storeIds.client)
        /\ storeIds' = [storeIds EXCEPT !.client =
                            IF Cardinality(dbStore'.clients) > Cardinality(dbStore.clients)
                            THEN @ + 1 ELSE @]
        /\ storeCall' = [op |-> "save_client", client_id |-> client.id]
        /\ UNCHANGED notStore

CallDeleteClient ==
    \E client_id \in 1..MaxStoreClients :
        /\ dbStore' = delete_client(dbStore, client_id)
        /\ storeCall' = [op |-> "delete_client", client_id |-> client_id]
        /\ UNCHANGED <<storeIds, notStore>>

CallSaveInvoice ==
    \E inv \in InvoiceArgs :
        /\ inv.id = 0 => storeIds.invoice <= MaxStoreInvoices
        /\ (inv.id = 0 /\ inv.invoice_number = <<>>) => dbStore.counter < MaxStoreCounter
        /\ dbStore' = save_invoice(dbStore, inv, storeIds.invoice)
        /\ storeIds' = [storeIds EXCEPT !.invoice =
                            IF Cardinality(dbStore'.invoices) > Cardinality(dbStore.invoices)
                            THEN @ + 1 ELSE @]
        /\ storeCall' = [op |-> "save_invoice", client_id |-> inv.client_id]
        /\ UNCHANGED notStore

CallDeleteInvoice ==
    \E invoice_id \in 1..MaxStoreInvoices :
        /\ dbStore' = delete_invoice(dbStore, invoice_id)
        /\ storeCall' = [op |-> "delete_invoice", client_id |-> 0]
        /\ UNCHANGED <<storeIds, notStore>>

NextStore ==
    \/ CallSaveClient
    \/ CallDeleteClient
    \/ CallSaveInvoice
    \/ CallDeleteInvoice

-----------------------------------------------------------------------------
(* Overdue invoices: the property Invoice.is_overdue (database/models.py)  *)
(* and the query of get_overdue_invoices (database/db_manager.py), which   *)
(* compares the stored ISO text of the due date with the ISO text of       *)
(* today's date.                                                           *)

(* the most rows of the invoices table                                     *)
MaxOverdueRows == 2

INVOICE_STATUSES == {"Draft", "Sent", "Paid", "Overdue", "Cancelled"}

Day(y, m, d) == [y |-> y, m |-> m, d |-> d]

DateTime(y, m, d, hh, mi, ss) ==
    [y |-> y, m |-> m, d |-> d, hh |-> hh, mi |-> mi, ss |-> ss]

(* the due dates of the stored invoices: the last day of a month at        *)
(* midnight, the first day of the next late in the evening, and a day in   *)
(* a month of two digits                                                   *)
StoredDueDates ==
    {DateTime(2024, 1, 31, 0, 0, 0), DateTime(2024, 2, 1, 23, 59, 59),
     DateTime(2024, 10, 9, 0, 0, 0)}

(* the days on which the program runs                                      *)
Todays == {Day(2024, 2, 1), Day(2024, 2, 2), Day(2024, 10, 10)}

(* date.isoformat(): YYYY-MM-DD                                            *)
date_isoformat(d) ==
    ZeroPad(Digits(d.y), 4) \o <<"-">> \o ZeroPad(Digits(d.m), 2) \o <<"-">>
        \o ZeroPad(Digits(d.d), 2)

(* datetime.isoformat(): YYYY-MM-DDTHH:MM:SS                               *)
datetime_isoformat(dt) ==
    date_isoformat(dt) \o <<"T">> \o ZeroPad(Digits(dt.hh), 2) \o <<":">>
        \o ZeroPad(Digits(dt.mi), 2) \o <<":">> \o ZeroPad(Digits(dt.ss), 2)

(* the code point of a character of an ISO text                            *)
Ord(ch) ==
    CASE ch = "-" -> 45 [] ch = ":" -> 58 [] ch = "T" -> 84
      [] OTHER -> 48 + (CHOOSE k \in 0..9 : DigitChar(k) = ch)

(* a < b on TEXT values in SQLite: byte by byte, a proper prefix first     *)
RECURSIVE TextLess(_, _)
TextLess(a, b) ==
    IF b = <<>> THEN FALSE
    ELSE IF a = <<>> THEN TRUE
    ELSE IF Ord(Head(a)) # Ord(Head(b)) THEN Ord(Head(a)) < Ord(Head(b))
    ELSE TextLess(Tail(a), Tail(b))

(* a > b on datetime.date values                                           *)
DateGreater(a, b) ==
    \/ a.y > b.y
    \/ a.y = b.y /\ a.m > b.m
    \/ a.y = b.y /\ a.m = b.m /\ a.d > b.d

(* as is_overdue, but with >= in place of >                                *)
is_overdue_OrToday(inv, today) ==
    inv.status = "Sent" /\ ~DateGreater(Day(inv.due_date.y, inv.due_date.m,
                                             inv.due_date.d), today)

(* the property Invoice.is_overdue on the day today                        *)
is_overdue(inv, today) ==
    inv.status = "Sent" /\ DateGreater(today, Day(inv.due_date.y, inv.due_date.m,
                                                   inv.due_date.d))

(* Invoice.to_dict: the row stores the status and due_date.isoformat()     *)
OverdueRow(inv) == [status |-> inv.status, due_date |-> datetime_isoformat(inv.due_date)]

(* get_overdue_invoices: the ids of the rows with status = 'Sent' and      *)
(* due_date < today's ISO text                                             *)
get_overdue_invoices(table, today) ==
    {id \in 1..Len(table) :
        table[id].status = "Sent"
        /\ TextLess(table[id].due_date, date_isoformat(today))}

(* get_dashboard_stats: the counts of sent and of overdue invoices         *)
get_dashboard_stats(table, today) ==
    [sent_invoices |-> Cardinality({id \in 1..Len(table) : table[id].status = "Sent"}),
     overdue_invoices |-> Cardinality(get_overdue_invoices(table, today))]

NoQuery == [today |-> Day(0, 0, 0), overdue |-> {}, flags |-> <<>>,
            stats |-> [sent_invoices |-> 0, overdue_invoices |-> 0]]

(* odInvoices are the invoice objects as saved, odTable their rows         *)
InitOverdue ==
    /\ odInvoices = <<>>
    /\ odTable = <<>>
    /\ odOp = "__init__"
    /\ odQuery = NoQuery

(* save_invoice of a new invoice                                           *)
OverdueSaveInvoice ==
    \E status \in INVOICE_STATUSES, due_date \in StoredDueDates :
        /\ Len(odInvoices) < MaxOverdueRows
        /\ LET inv == [status |-> status, due_date |-> due_date]
           IN  /\ odInvoices' = Append(odInvoices, inv)
               /\ odTable' = Append(odTable, OverdueRow(inv))
        /\ odOp' = "save_invoice"
        /\ UNCHANGED <<odQuery, notOverdue>>

(* update_invoice_status                                                   *)
OverdueUpdateStatus ==
    \E id \in 1..Len(odInvoices), status \in INVOICE_STATUSES :
        /\ odInvoices' = [odInvoices EXCEPT ![id].status = status]
        /\ odTable' = [odTable EXCEPT ![id].status = status]
        /\ odOp' = "update_invoice_status"
        /\ UNCHANGED <<odQuery, notOverdue>>

(* the main window refreshes on the day today: get_dashboard_stats with    *)
(* get_overdue_invoices, and is_overdue of every invoice of the list       *)
OverdueRefresh ==
    \E today \in Todays :
        /\ odQuery' = [today |-> today,
                       overdue |-> get_overdue_invoices(odTable, today),
                       flags |-> [id \in 1..Len(odInvoices) |->
                                     is_overdue(odInvoices[id], today)],
                       stats |-> get_dashboard_stats(odTable, today)]
        /\ odOp' = "refresh_data"
        /\ UNCHANGED <<odInvoices, odTable, notOverdue>>

NextOverdue ==
    \/ OverdueSaveInvoice
    \/ OverdueUpdateStatus
    \/ OverdueRefresh

-----------------------------------------------------------------------------
(* Payment terms: InputValidator.validate_payment_terms                    *)
(* (utils/validators.py) and DateCalculator.calculate_due_date             *)
(* (utils/calculations.py) on the same invoice date and terms.             *)

PAYMENT_TERMS ==
    {NetSpace \o <<"1", "5">>, NetSpace \o <<"3", "0">>, NetSpace \o <<"4", "5">>,
     DueOnReceipt, <<"C", "u", "s", "t", "o", "m">>}

(* the payment terms of the model, and the two around the upper limit      *)
TermsTexts ==
    PaymentTermsTexts \cup {NetSpace \o <<"3", "6", "5">>, NetSpace \o <<"3", "6", "6">>}

(* as DaysInRange, but without the lower limit                             *)
DaysInRange_NoLower(days) == days <= 365

(* not (days < 0 or days > 365)                                            *)
DaysInRange(days) == ~(days < 0 \/ days > 365)

(* the check of the number of a text that starts with "Net "               *)
NetTermsVerdict(parts) ==
    IF Len(parts) < 2 \/ IsExc(py_int(parts[2]))
    THEN Returned(FALSE, "Invalid Net payment terms format (use 'Net 30')")
    ELSE IF ~DaysInRange(py_int(parts[2]).c)
    THEN Returned(FALSE, "Net payment terms must be between 0 and 365 days")
    ELSE Returned(TRUE, "")

(* InputValidator.validate_payment_terms                                   *)
validate_payment_terms(terms) ==
    IF terms \notin PAYMENT_TERMS /\ ~startswith(terms, NetSpace)
    THEN Returned(FALSE, "Invalid payment terms. Must be one of: Net 15, Net 30, Net 45, Due on Receipt, Custom")
    ELSE IF startswith(terms, NetSpace) THEN NetTermsVerdict(split(terms))
    ELSE Returned(TRUE, "")

NotCalled == [called |-> FALSE, result |-> NoneVal]

Called(result) == [called |-> TRUE, result |-> result]

(* a form with an invoice date and payment terms; neither function called  *)
InitTerms ==
    /\ termsInput = [invoice_date |-> Date(738886), payment_terms |-> DueOnReceipt,
                     now |-> Date(738886)]
    /\ termsVerdict = NotCalled
    /\ termsDue = NotCalled

(* the invoice date and the payment terms are entered                      *)
EnterTerms ==
    \E invoice_date \in InvoiceDates \cup {NoneVal}, payment_terms \in TermsTexts,
       now \in InvoiceDates :
        /\ invoice_date # NoneVal => now = invoice_date
        /\ termsInput' = [invoice_date |-> invoice_date,
                          payment_terms |-> payment_terms, now |-> now]
        /\ termsVerdict' = NotCalled
        /\ termsDue' = NotCalled
        /\ UNCHANGED notTerms

CallValidatePaymentTerms ==
    /\ ~termsVerdict.called
    /\ termsVerdict' = Called(validate_payment_terms(termsInput.payment_terms))
    /\ UNCHANGED <<termsInput, termsDue, notTerms>>

CallCalculateDueDate ==
    /\ ~termsDue.called
    /\ termsDue' = Called(calculate_due_date(termsInput.invoice_date,
                                             termsInput.payment_terms, termsInput.now))
    /\ UNCHANGED <<termsInput, termsVerdict, notTerms>>

NextTerms ==
    \/ EnterTerms
    \/ CallValidatePaymentTerms
    \/ CallCalculateDueDate

-----------------------------------------------------------------------------
Init == IdleCalc /\ InitInv /\ IdleDue /\ InitNum /\ InitEdit /\ IdleDoc
        /\ IdleVal /\ InitLine /\ InitTax /\ InitClient /\ InitItem /\ InitStore /\ InitOverdue /\ InitTerms

(* the engine about to be called, everything else as at the start          *)
CalcInit == InitCalc /\ InitInv /\ IdleDue /\ InitNum /\ InitEdit /\ IdleDoc
        /\ IdleVal /\ InitLine /\ InitTax /\ InitClient /\ InitItem /\ InitStore /\ InitOverdue /\ InitTerms

SpecCalc == CalcInit /\ [][NextCalc]_vars

Spec == Init /\ [][NextInv]_vars

(* calculate_due_date about to be called, everything else as at the start  *)
DueInit == IdleCalc /\ InitInv /\ InitDue /\ InitNum /\ InitEdit /\ IdleDoc
        /\ IdleVal /\ InitLine /\ InitTax /\ InitClient /\ InitItem /\ InitStore /\ InitOverdue /\ InitTerms

SpecDue == DueInit /\ [][NextDue]_vars

SpecNum == Init /\ [][NextNum]_vars

SpecEdit == Init /\ [][NextEdit]_vars

(* a stored invoice about to be rendered, everything else as at the start  *)
DocInit == IdleCalc /\ InitInv /\ IdleDue /\ InitNum /\ InitEdit /\ InitDoc
        /\ IdleVal /\ InitLine /\ InitTax /\ InitClient /\ InitItem /\ InitStore /\ InitOverdue /\ InitTerms

SpecDoc == DocInit /\ [][NextDoc]_vars

(* a validator or the formatter about to be called, everything else as at  *)
(* the start                                                               *)
ValInit == IdleCalc /\ InitInv /\ IdleDue /\ InitNum /\ InitEdit /\ IdleDoc
        /\ InitVal /\ InitLine /\ InitTax /\ InitClient /\ InitItem /\ InitStore /\ InitOverdue /\ InitTerms

SpecVal == ValInit /\ [][NextVal]_vars

SpecLine == Init /\ [][NextLine]_vars

SpecTax == Init /\ [][NextTax]_vars

SpecClient == Init /\ [][NextClient]_vars

SpecItem == Init /\ [][NextItem]_vars

SpecStore == Init /\ [][NextStore]_vars

SpecOverdue == Init /\ [][NextOverdue]_vars

SpecTerms == Init /\ [][NextTerms]_vars

-----------------------------------------------------------------------------
(* Properties of the calculation engine                                    *)

IsNum(v) == v.t = "num"

(* a number with at most two decimals, and its value in cents              *)
IsMoney(v) == v.t = "num" /\ v.e <= 2

Cents(v) == v.c * Pow10(2 - v.e)

(* k cents is p * 10^(-e) rounded half-up: k <= 100 * p / 10^e + 1/2 < k+1 *)
IsHalfUpCents(k, p, e) ==
    IF e <= 2 THEN k = p * Pow10(2 - e)
    ELSE LET u == Pow10(e - 2)
             d == p - k * u
         IN  -u <= 2 * d /\ 2 * d < u

(* p * 10^(-e) lies exactly halfway between two cents                      *)
IsHalfCent(p, e) == e >= 3 /\ p % Pow10(e - 2) = 5 * Pow10(e - 3)

RECURSIVE SumCents(_)
SumCents(totals) ==
    IF totals = <<>> THEN 0 ELSE Cents(Head(totals)) + SumCents(Tail(totals))

NonNegative(v) == v.t = "num" /\ v.c >= 0

(* C1: for non-negative quantity and rate, calculate_line_total returns    *)
(* quantity * rate rounded half-up to 2 decimals; a product halfway        *)
(* between two cents goes up                                               *)
C1_LineTotalHalfUp ==
    (op = "calculate_line_total" /\ NonNegative(argA) /\ NonNegative(argB)) =>
        /\ IsMoney(ret)
        /\ IsHalfUpCents(Cents(ret), argA.c * argB.c, argA.e + argB.e)

(* a halfway product whose even neighbour is the lower cent was rounded up *)
C1_Witness ==
    /\ op = "calculate_line_total"
    /\ NonNegative(argA) /\ NonNegative(argB)
    /\ IsHalfCent(argA.c * argB.c, argA.e + argB.e)
    /\ IsMoney(ret)
    /\ Cents(ret) % 2 = 1

(* C2: the subtotal of calculate_invoice_total is the sum of the line      *)
(* totals, each of them the half-up rounding of its own product            *)
C2_SubtotalSumOfRounded ==
    op = "calculate_invoice_total" =>
        /\ Len(retTotals.line_totals) = Len(argList.items)
        /\ \A i \in 1..Len(argList.items) :
              /\ IsMoney(retTotals.line_totals[i])
              /\ IsHalfUpCents(Cents(retTotals.line_totals[i]),
                               argList.items[i].quantity.c * argList.items[i].rate.c,
                               argList.items[i].quantity.e + argList.items[i].rate.e)
        /\ IsMoney(retTotals.subtotal)
        /\ Cents(retTotals.subtotal) = SumCents(retTotals.line_totals)

(* an item list on which rounding the sum of the unrounded products gives  *)
(* another cent than the subtotal returned                                 *)
C2_Witness ==
    /\ op = "calculate_invoice_total"
    /\ IsMoney(retTotals.subtotal)
    /\ LET u == SumProducts(argList.items)
       IN  ~IsHalfUpCents(Cents(retTotals.subtotal), u.c, u.e)

(* C3: tax_amount is subtotal * rate rounded half-up, from the rounded     *)
(* subtotal; (10 x 150.00, 1 x 500.00) at 8.5% gives 2000.00, 170.00 and   *)
(* 2170.00; rate 0 gives tax 0.00                                          *)
C3_TaxFromRoundedSubtotal ==
    op = "calculate_invoice_total" =>
        /\ IsMoney(retTotals.subtotal) /\ IsMoney(retTotals.tax_amount)
        /\ IsHalfUpCents(Cents(retTotals.tax_amount),
                         retTotals.subtotal.c * argB.c, retTotals.subtotal.e + argB.e)
        /\ (argB.c = 0 => Cents(retTotals.tax_amount) = 0)
        /\ (/\ argList.items = <<[quantity |-> Num(10, 0), rate |-> Num(150, 0)],
                                 [quantity |-> Num(1, 0), rate |-> Num(500, 0)]>>
            /\ argB = Num(85, 3))
           => /\ Cents(retTotals.subtotal) = 200000
              /\ Cents(retTotals.tax_amount) = 17000
              /\ Cents(retTotals.total) = 217000

(* the scenario of the specification has been computed                     *)
C3_Witness ==
    /\ op = "calculate_invoice_total"
    /\ argList.items = <<[quantity |-> Num(10, 0), rate |-> Num(150, 0)],
                         [quantity |-> Num(1, 0), rate |-> Num(500, 0)]>>
    /\ argB = Num(85, 3)
    /\ Cents(retTotals.tax_amount) = 17000

(* C4: calculate_total of two 2-decimal amounts is their exact sum, and in *)
(* every result of calculate_invoice_total total = subtotal + tax_amount   *)
C4_TotalIsExactSum ==
    /\ (op = "calculate_total" /\ IsMoney(argA) /\ IsMoney(argB)) =>
          /\ IsMoney(ret)
          /\ Cents(ret) = Cents(argA) + Cents(argB)
    /\ op = "calculate_invoice_total" =>
          /\ IsMoney(retTotals.total)
          /\ Cents(retTotals.total) =
                 Cents(retTotals.subtotal) + Cents(retTotals.tax_amount)

(* 0.10 + 0.20, whose sum in binary floating point is not 0.30, gave 0.30  *)
C4_Witness ==
    /\ op = "calculate_total"
    /\ argA = Num(1, 1) /\ argB = Num(2, 1)
    /\ IsMoney(ret) /\ Cents(ret) = 30

(* an argument that is not a number: text such as "abc", None, or a list   *)
(* holding such text                                                       *)
HasNonNumericInput ==
    \/ op \in {"calculate_line_total", "calculate_tax_amount", "calculate_total"}
       /\ (~IsNum(argA) \/ ~IsNum(argB))
    \/ op = "calculate_subtotal"
       /\ (argList.t # "list" \/ \E i \in 1..Len(argList.items) : ~IsNum(argList.items[i]))

(* C5: on non-numeric input calculate_line_total, calculate_subtotal,      *)
(* calculate_tax_amount and calculate_total return 0.00 and do not raise   *)
C5_FailsSoft ==
    HasNonNumericInput => (IsNum(ret) /\ ret.c = 0)

-----------------------------------------------------------------------------
(* Properties of the Invoice aggregate, the form and the rendered PDF      *)

(* k cents is p * 10^(-e) rounded to 2 places, whichever way a halfway     *)
(* value is taken                                                          *)
IsRoundedCents(k, p, e) ==
    IF e <= 2 THEN k = p * Pow10(2 - e)
    ELSE LET u == Pow10(e - 2)
         IN  2 * Abs(p - k * u) <= u

(* the totals t are the ones that follow from the item objects and the tax *)
(* rate: subtotal = sum of the line totals, tax_amount = subtotal *        *)
(* tax_rate rounded to 2 places, total = subtotal + tax_amount             *)
TotalsAreCurrent(t, items, tax_rate) ==
    /\ IsMoney(t.subtotal) /\ IsMoney(t.tax_amount) /\ IsMoney(t.total)
    /\ Cents(t.subtotal) = Cents(SumTotals(items))
    /\ IsRoundedCents(Cents(t.tax_amount), Cents(t.subtotal) * tax_rate.c, 2 + tax_rate.e)
    /\ Cents(t.total) = Cents(t.subtotal) + Cents(t.tax_amount)

(* C6: in every reachable state the totals stored on the Invoice are       *)
(* current with respect to its items and its tax rate                      *)
C6_StoredTotalsCurrent ==
    invoice.exists =>
        TotalsAreCurrent(invoice.totals, Deref(heap, invoice.items), invoice.tax_rate)

(* the invoice and item objects from which the PDF of this state was       *)
(* rendered: self.invoice for the form, the stored row for the main window *)
RenderedTaxRate == IF handler = "_generate_pdf" THEN invoice.tax_rate ELSE db.tax_rate

RenderedItems ==
    IF handler = "_generate_pdf" THEN Deref(heap, invoice.items) ELSE from_dict_items(db)

RowValue(label) ==
    pdf.rows[CHOOSE i \in 1..Len(pdf.rows) : pdf.rows[i].label = label].value

HasRow(label) == \E i \in 1..Len(pdf.rows) : pdf.rows[i].label = label

(* C7: whenever a PDF is rendered, the subtotal, tax and total shown are   *)
(* the ones computed from the invoice's items and tax rate at render time, *)
(* and the line totals shown add up to the subtotal shown                  *)
C7_PdfTotalsCurrent ==
    pdf.rendered =>
        LET sub == SumCents(pdf.line_totals)
        IN  /\ pdf.line_totals = [i \in 1..Len(RenderedItems) |-> ItemTotal(RenderedItems[i])]
            /\ HasRow("subtotal") => Cents(RowValue("subtotal")) = sub
            /\ HasRow("tax") =>
                  IsRoundedCents(Cents(RowValue("tax")), sub * RenderedTaxRate.c,
                                 2 + RenderedTaxRate.e)
            /\ HasRow("total") =>
                  IsRoundedCents(Cents(RowValue("total")) - sub, sub * RenderedTaxRate.c,
                                 2 + RenderedTaxRate.e)

(* C8: the totals that Invoice.calculate_totals stores at a save are       *)
(* exactly the totals that calculate_invoice_total gives for the same      *)
(* quantities, rates and tax rate, which are the totals the form displays  *)
C8_StoredTotalsMatchEngine ==
    handler = "_save_invoice" =>
        /\ invoice.totals = formTotals
        /\ db.totals = formTotals

-----------------------------------------------------------------------------
(* Properties of calculate_due_date                                        *)

(* the text is an integer numeral: an optional sign and decimal digits     *)
IsIntegerText(s) ==
    LET body == IF s # <<>> /\ Head(s) \in {"+", "-"} THEN Tail(s) ELSE s
    IN  body # <<>> /\ \A i \in 1..Len(body) : IsDigit(body[i])

IntegerValue(s) ==
    IF Head(s) = "-" THEN -DigitsValue(Tail(s))
    ELSE IF Head(s) = "+" THEN DigitsValue(Tail(s))
    ELSE DigitsValue(s)

(* C9: for an invoice date d and terms t the result is d + N days when t   *)
(* is "Net <N>" with integer N, d when t is exactly "Due on Receipt", and  *)
(* d + 30 days in every other case                                         *)
C9_DueDatePolicy ==
    (dueOp = "calculate_due_date" /\ dueDate # NoneVal) =>
        LET tail == SubSeq(dueTerms, Len(NetSpace) + 1, Len(dueTerms))
        IN  IF startswith(dueTerms, NetSpace) /\ IsIntegerText(tail)
            THEN dueRet = Date(dueDate.c + IntegerValue(tail))
            ELSE IF dueTerms = DueOnReceipt THEN dueRet = dueDate
            ELSE dueRet = Date(dueDate.c + 30)

-----------------------------------------------------------------------------
(* Properties of the invoice numbers                                       *)

(* the counter value that an invoice number in the format of the settings  *)
(* was made from                                                           *)
NumberValue(text) == DigitsValue(SubSeq(text, 5, Len(text)))

(* C10: as long as the user only opens new-invoice forms and saves them,   *)
(* the number that a new-invoice form proposes is greater than (so         *)
(* different from) the number of every invoice saved before                *)
C10_NumbersUniqueIncreasing ==
    (numHandler = "_setup_new_invoice" /\ ~numTyped) =>
        \A i \in 1..Len(rows) : NumberValue(numForm.field) > NumberValue(rows[i])

-----------------------------------------------------------------------------
(* Properties of a saved invoice's number and company fields               *)

(* C11: once the invoice is stored with a number, no step changes the      *)
(* stored number                                                           *)
C11_NumberImmutable ==
    [][stored.exists => stored'.invoice_number = stored.invoice_number]_vars

(* C12: once the invoice is stored, no step changes its stored company     *)
(* fields                                                                  *)
C12_CompanyFrozen ==
    [][stored.exists => stored'.company = stored.company]_vars

-----------------------------------------------------------------------------
(* Properties of the rendered documents                                    *)

HasBlock(kind) == \E i \in 1..Len(docOut) : docOut[i].block = kind

TheBlock(kind) == docOut[CHOOSE i \in 1..Len(docOut) : docOut[i].block = kind]

DocRendered == docOp # "none"

DocRowLabels ==
    IF ~HasBlock("totals") THEN {}
    ELSE {TheBlock("totals").rows[i].label : i \in 1..Len(TheBlock("totals").rows)}

(* C13: every variant shows a subtotal row and a total row, and a tax row  *)
(* exactly when the invoice's tax rate is greater than 0                   *)
C13_TotalsRowsPresent ==
    DocRendered =>
        /\ "subtotal" \in DocRowLabels
        /\ "total" \in DocRowLabels
        /\ "tax" \in DocRowLabels <=> docInvoice.tax_rate.c > 0

(* C14: every variant shows a notes block exactly when the notes are       *)
(* non-empty, and always a footer                                          *)
C14_NotesAndFooter ==
    DocRendered =>
        /\ HasBlock("notes") <=> docInvoice.notes # ""
        /\ HasBlock("footer")

(* C15: an unregistered template name gives the output that the choice     *)
(* 'default' gives for the same invoice                                    *)
C15_UnknownTemplateIsDefault ==
    (DocRendered /\ docTemplate \notin {"default", "modern", "classic", "minimal"}) =>
        docOut = generate_invoice_pdf(docInvoice)

(* C16: the footer says payment is due upon receipt for a Sent invoice     *)
(* with terms "Due on Receipt", includes the formatted due date for a Sent *)
(* invoice with other terms, and is the thank-you message without a date   *)
(* for every other status                                                  *)
C16_FooterMessage ==
    DocRendered =>
        /\ HasBlock("footer")
        /\ LET text == TheBlock("footer").text
               due == format_date_for_display(docInvoice.due_date)
           IN  IF docInvoice.status = "Sent"
               THEN IF docInvoice.payment_terms = DueOnReceipt
                    THEN text = <<"Payment is due upon receipt of this invoice.">>
                    ELSE due # "" /\ due \in Range(text)
               ELSE /\ due \notin Range(text)
                    /\ text \in {<<"Thank you for your business!">>,
                                 <<"Thank you for your business.">>}

-----------------------------------------------------------------------------
(* Properties of the validators                                            *)

(* the result is (True, "") or (False, reason) with a reason               *)
IsVerdict(r) == r.raised = "" /\ (r.ok <=> r.reason = "")

(* a number within [lo, hi]                                                *)
InRange(x, lo, hi) ==
    x.kind = "float" /\ ~NumLess(x.num, lo) /\ ~NumLess(hi, x.num)

(* the arguments that are amounts: numbers of any size; a text stands for  *)
(* the amount that parse_currency_input reads from it                      *)
IsNumber(x) == x.kind \in {"float", "bigint", "inf", "-inf"}

(* C17: validate_amount never raises; it returns (True, "") exactly when   *)
(* the amount lies in the closed range [0.01, 999,999.99], both bounds     *)
(* included, and (False, reason) with a non-empty reason for every amount  *)
(* below 0.01 or above 999,999.99 and for everything that is not an amount *)
C17_AmountRange ==
    valOp = "validate_amount" =>
        /\ IsVerdict(valRet)
        /\ valRet.ok <=>
              IF valArg.kind = "str"
              THEN InRange(parse_currency_input(valArg), MIN_AMOUNT, MAX_AMOUNT)
              ELSE InRange(valArg, MIN_AMOUNT, MAX_AMOUNT)

(* a positive number of at most 10,000, given as a number or as the text   *)
(* of one                                                                  *)
IsGoodQuantity(x) ==
    LET v == IF x.kind = "str" THEN py_float(x) ELSE x
    IN  /\ InRange(v, Num(0, 0), MaxQuantity)
        /\ v.num.c # 0

(* a rate that is neither below 0 nor above 1; a text stands for the rate  *)
(* that parse_percentage_input reads from it                               *)
IsBadTaxRate(x) ==
    LET v == IF x.kind = "str" THEN parse_percentage_input(x) ELSE x
    IN  \/ v.kind \in {"bigint", "inf"} \/ v.kind = "-inf"
        \/ v.kind = "float" /\ (NumLess(v.num, Num(0, 0)) \/ NumLess(Num(1, 0), v.num))

(* C18: validate_quantity and validate_tax_rate never raise and report a   *)
(* failure as (False, reason) with a non-empty reason; validate_quantity   *)
(* fails exactly when the value is <= 0, is > 10,000 or is not a number,   *)
(* and validate_tax_rate fails exactly when the rate is < 0 or > 1         *)
C18_QuantityAndTaxRate ==
    /\ valOp = "validate_quantity" =>
          /\ IsVerdict(valRet)
          /\ valRet.ok <=> IsGoodQuantity(valArg)
    /\ valOp = "validate_tax_rate" =>
          /\ IsVerdict(valRet)
          /\ IsNumber(valArg) \/ valArg.kind = "str" =>
                (~valRet.ok <=> IsBadTaxRate(valArg))

-----------------------------------------------------------------------------
(* Properties of the line items                                            *)

(* the bounds of a line item: a description, 0 < quantity <= 10,000 and    *)
(* 0 <= rate <= 999,999.99                                                 *)
ItemInBounds(item) ==
    /\ strip(item.description) # <<>>
    /\ InRange(item.quantity, Num(0, 0), MaxQuantity)
    /\ item.quantity.num.c # 0
    /\ InRange(item.rate, Num(0, 0), MAX_AMOUNT)

AllInBounds(items) == \A i \in 1..Len(items) : ItemInBounds(items[i])

(* C19: every item of a saved invoice is within the bounds of a line item; *)
(* the item dialog lets no item outside the bounds into the form; and      *)
(* validate_invoice_items accepts items that are within the bounds, a free *)
(* item with rate 0 among them                                             *)
C19_LineItemBounds ==
    /\ AllInBounds(savedLines)
    /\ AllInBounds(lineItems)
    /\ lineHandler = "validate_invoice_items" /\ lineItems # <<>>
           /\ AllInBounds(lineItems) => lineError = ""

-----------------------------------------------------------------------------
(* Properties of the currency formatter                                    *)

(* an amount with at most two decimals was formatted in US dollars         *)
FormattedUSD ==
    /\ valOp = "format_currency"
    /\ valCurrency = "USD"
    /\ valArg.kind = "float"
    /\ valArg.num.e <= 2

(* C20: formatting is round-trip stable: for every amount x with two       *)
(* decimals, positive, zero or negative, with or without thousands         *)
(* separators, formatting in USD what parse_currency_input reads from      *)
(* format_currency(x, "USD") gives format_currency(x, "USD") again         *)
C20_CurrencyRoundTrip ==
    FormattedUSD =>
        /\ valRet.raised = ""
        /\ format_currency(parse_currency_input(valRet.value), "USD") = valRet

(* a negative amount with two thousands separators was formatted, and the  *)
(* text carries the sign, the separators and the cents                     *)
C20_Witness ==
    /\ FormattedUSD
    /\ valArg = PyFloat(Num(-123456789, 2))
    /\ valRet.value.text = <<"-", "$", "1", ",", "2", "3", "4", ",", "5", "6", "7", ".",
                             "8", "9">>
    /\ parse_currency_input(valRet.value) = valArg

(* k cents is p * 10^(-e) rounded to the nearest cent                      *)
IsHalfEvenCents(k, p, e) ==
    IF e <= 2 THEN k = p * Pow10(2 - e)
    ELSE LET u == Pow10(e - 2)
             d == p - k * u
         IN  -u < 2 * d /\ 2 * d < u

(* the symbol that the fixed table gives a currency code                   *)
TableSymbol(code) ==
    CASE code = "USD" -> <<"$">> [] code = "EUR" -> <<"€">> [] code = "GBP" -> <<"£">>
      [] code = "CAD" -> <<"C", "$">> [] code = "AUD" -> <<"A", "$">>
      [] OTHER -> <<"$">>

(* digits in groups of three separated by commas, a point, two digits      *)
IsGroupedTwoDecimals(n) ==
    /\ Len(n) >= 4
    /\ n[Len(n) - 2] = "."
    /\ IsDigit(n[Len(n) - 1]) /\ IsDigit(n[Len(n)])
    /\ IsDigit(n[1])
    /\ \A i \in 1..(Len(n) - 3) :
          IF (Len(n) - 3 - i) % 4 = 3 THEN n[i] = "," ELSE IsDigit(n[i])

(* an amount was formatted: a float or an int that a float can hold        *)
FormattedAmount == valOp = "format_currency" /\ valArg.kind \in {"float", "-0.0"}

(* C21: format_currency writes the symbol of the fixed table, '$' for an   *)
(* unknown code; a negative amount is '-', the symbol and the absolute     *)
(* value, so that no minus sign follows the symbol; the number is grouped  *)
(* in thousands with exactly two decimals and is the amount rounded to     *)
(* cents                                                                   *)
C21_CurrencyFormat ==
    FormattedAmount =>
        /\ valRet.raised = ""
        /\ LET text == valRet.value.text
               symbol == TableSymbol(valCurrency)
               prefix == IF valArg.num.c < 0 THEN <<"-">> \o symbol ELSE symbol
               number == SubSeq(text, Len(prefix) + 1, Len(text))
           IN  /\ startswith(text, prefix)
               /\ IsGroupedTwoDecimals(number)
               /\ IsHalfEvenCents(DigitsValue(SelectSeq(number, IsDigit)),
                                  Abs(valArg.num.c), valArg.num.e)

-----------------------------------------------------------------------------
(* Properties of the parsers                                               *)

(* what is left of a text when every character other than a digit, a point *)
(* and a minus sign is dropped                                             *)
IsKept(ch) == ch \in {"0", "1", "2", "3", "4", "5", "6", "7", "8", "9", ".", "-"}

Kept(text) == SelectSeq(text, IsKept)

Unsigned(s) == IF s # <<>> /\ Head(s) = "-" THEN Tail(s) ELSE s

IsPoint(ch) == ch = "."

(* a well-formed decimal: an optional leading minus sign, then digits with *)
(* at most one point among them, and at least one digit                    *)
IsDecimal(s) ==
    /\ \A i \in 1..Len(Unsigned(s)) : IsDigit(Unsigned(s)[i]) \/ Unsigned(s)[i] = "."
    /\ Len(SelectSeq(Unsigned(s), IsPoint)) <= 1
    /\ \E i \in 1..Len(Unsigned(s)) : IsDigit(Unsigned(s)[i])

(* the digits of a well-formed decimal read as one integer, and how many   *)
(* of them follow the point                                                *)
DecimalDigits(s) == DigitsValue(SelectSeq(s, IsDigit))

DecimalPlaces(s) ==
    IF \E i \in 1..Len(s) : s[i] = "."
    THEN Len(s) - (CHOOSE i \in 1..Len(s) : s[i] = ".")
    ELSE 0

(* k * 10^(-places) is p * 10^(-e) rounded to that many places             *)
IsRoundedTo(k, p, e, places) ==
    IF e <= places THEN k = p * Pow10(places - e)
    ELSE LET u == Pow10(e - places)
             d == p - k * u
         IN  -u < 2 * d /\ 2 * d < u

(* the float v is the decimal s, divided by 10^shift and rounded to places *)
IsParsed(v, s, shift, places) ==
    /\ v.kind \in {"float", "-0.0"}
    /\ v.num.e <= places
    /\ v.num.c # 0 => (v.num.c < 0 <=> Head(s) = "-")
    /\ IsRoundedTo(Abs(v.num.c) * Pow10(places - v.num.e), DecimalDigits(s),
                   DecimalPlaces(s) + shift, places)

IsZero(v) == v.kind = "float" /\ v.num.c = 0

(* C22: parse_currency_input and parse_percentage_input never raise and    *)
(* return a number for every text: of what is left after dropping every    *)
(* character other than digits, '.' and '-', the value rounded to 2        *)
(* decimals, respectively the value divided by 100 and rounded to 4        *)
(* decimals, and 0 when what is left is not a well-formed decimal          *)
C22_ParsersTotal ==
    /\ valOp = "parse_currency_input" =>
          /\ valRet.raised = ""
          /\ IF IsDecimal(Kept(valArg.text))
             THEN IsParsed(valRet.value, Kept(valArg.text), 0, 2)
             ELSE IsZero(valRet.value)
    /\ valOp = "parse_percentage_input" =>
          /\ valRet.raised = ""
          /\ IF IsDecimal(Kept(valArg.text))
             THEN IsParsed(valRet.value, Kept(valArg.text), 2, 4)
             ELSE IsZero(valRet.value)

(* a text with several points was parsed as an amount and gave 0, and a    *)
(* percentage with a per cent sign was parsed and gave its hundredth       *)
C22_Witness ==
    \/ /\ valOp = "parse_currency_input"
       /\ valArg.text = <<"1", ".", "2", ".", "3">>
       /\ IsZero(valRet.value)
    \/ /\ valOp = "parse_percentage_input"
       /\ valArg.text = <<"8", ".", "5", "%">>
       /\ valRet.value = PyFloat(Num(85, 3))

-----------------------------------------------------------------------------
(* the rate r lies within [0, 1]                                           *)
IsUnitRate(r) == r.t = "num" /\ 0 <= r.c /\ r.c <= Pow10(r.e)

(* C23: in every reachable state of the store, every saved invoice has a   *)
(* tax_rate within [0, 1], whatever the settings and the form held when    *)
(* it was saved                                                            *)
C23_StoredTaxRateInUnitRange ==
    \A i \in 1..Len(taxRows) : IsUnitRate(taxRows[i].tax_rate)

(* an invoice saved from a new form that was opened under a default rate   *)
(* of 150 percent, with a text outside the table typed into the combobox   *)
C23_Witness ==
    /\ taxHandler = "_save_invoice"
    /\ Len(taxRows) = 2
    /\ taxForm.default_rate = Num(15, 1)
    /\ taxForm.tax_name = "150%"
    /\ taxRows[2].tax_rate = Num(0, 0)

(* the rate r is one of the rates of the fixed table                       *)
IsTableRate(r) == \E n \in DOMAIN DEFAULT_TAX_RATES : DEFAULT_TAX_RATES[n] = r

(* C24: an invoice whose stored tax rate is not a table rate, opened and   *)
(* saved without a change in between, keeps its tax_rate, tax_amount and   *)
(* total                                                                   *)
C24_CustomRateKept ==
    [][(/\ taxHandler = "_load_invoice"
        /\ taxHandler' = "_save_invoice"
        /\ ~IsTableRate(taxRows[taxForm.invoice_id].tax_rate))
       => taxRows'[taxForm.invoice_id] = taxRows[taxForm.invoice_id]]_vars

-----------------------------------------------------------------------------
(* the texts of a list that are not empty, in their order                  *)
IsNonEmptyText(p) == p # <<>>

NonEmptyOf(parts) == SelectSeq(parts, IsNonEmptyText)

(* the characters that the separators ", " and newline are made of         *)
SeparatorChars == {",", " ", "\n"}

(* the text does not begin or end with a separator character               *)
IsTrimmed(text) ==
    text = <<>> \/ (Head(text) \notin SeparatorChars
                    /\ text[Len(text)] \notin SeparatorChars)

-----------------------------------------------------------------------------
(* the same number, whatever the scale of the two decimals                 *)
SameNumber(x, y) == x.c * Pow10(y.e) = y.c * Pow10(x.e)

(* the field amount of an item built from quantity, rate and the amount    *)
(* supplied: the supplied amount when it is not zero, else the product     *)
IsAmountField(x, quantity, rate, supplied) ==
    IF supplied.c # 0 THEN x = supplied
    ELSE SameNumber(x, Num(quantity.c * rate.c, quantity.e + rate.e))

(* C26: two items of the same quantity and rate and of different supplied  *)
(* amounts give the same invoice subtotal, tax and total, the same         *)
(* rendered line total and the same serialized amount; the field amount    *)
(* holds the supplied amount when that is not zero and quantity * rate     *)
(* when it is zero                                                         *)
C26_AmountNotAuthoritative ==
    itemOp = "InvoiceItem" =>
        /\ itemA.totals = itemB.totals
        /\ itemA.line_total = itemB.line_total
        /\ itemA.serialized = itemB.serialized
        /\ IsAmountField(itemA.amount, itemArgs.quantity, itemArgs.rate,
                         itemArgs.amountA)
        /\ IsAmountField(itemB.amount, itemArgs.quantity, itemArgs.rate,
                         itemArgs.amountB)

(* 10 x 150.00 at 8.5 percent, once with no amount and once with the       *)
(* amount 999: the fields differ, 1500 and 999, and both lines print       *)
(* $1,500.00                                                               *)
C26_Witness ==
    /\ itemOp = "InvoiceItem"
    /\ itemArgs = [quantity |-> Num(10, 0), rate |-> Num(150, 0),
                   amountA |-> Num(0, 0), amountB |-> Num(999, 0),
                   tax_rate |-> Num(85, 3)]
    /\ itemA.amount = Num(1500, 0)
    /\ itemB.amount = Num(999, 0)
    /\ itemA.totals.total = Num(16275, 1)
    /\ itemB.line_total.value.text
           = <<"$", "1", ",", "5", "0", "0", ".", "0", "0">>

-----------------------------------------------------------------------------
(* every invoice row names a client row                                    *)
IsReferentiallyIntact(st) ==
    \A i \in st.invoices : \E c \in st.clients : c.id = i.client_id

(* the rows and the counter of the two stores are the same                 *)
SameStore(s, t) ==
    s.clients = t.clients /\ s.invoices = t.invoices /\ s.counter = t.counter

(* C27: after every call of save_client, save_invoice, delete_client and   *)
(* delete_invoice each stored invoice's client_id names a stored client;   *)
(* save_invoice for a missing or unknown client raises an error, and       *)
(* delete_client for a client with invoices raises an error and deletes    *)
(* nothing                                                                 *)
C27_ReferentialIntegrity ==
    [][/\ IsReferentiallyIntact(dbStore')
       /\ (/\ storeCall'.op = "save_invoice"
           /\ \A c \in dbStore.clients : c.id # storeCall'.client_id)
          => (dbStore'.error # "" /\ dbStore'.invoices = dbStore.invoices)
       /\ (/\ storeCall'.op = "delete_client"
           /\ \E i \in dbStore.invoices : i.client_id = storeCall'.client_id)
          => (dbStore'.error # "" /\ dbStore'.clients = dbStore.clients
              /\ dbStore'.invoices = dbStore.invoices)]_vars

(* delete_client has just been refused for a client that has an invoice    *)
C27_Witness ==
    /\ storeCall = [op |-> "delete_client", client_id |-> 1]
    /\ dbStore.error = "Cannot delete client with existing invoices"
    /\ \E i \in dbStore.invoices : i.client_id = 1
    /\ \E c \in dbStore.clients : c.id = 1

(* C28: a call of save_invoice or save_client that raises leaves the       *)
(* client rows, the invoice rows and the stored next_invoice_number as     *)
(* they were                                                               *)
C28_FailedSaveChangesNothing ==
    [][(storeCall'.op \in {"save_invoice", "save_client"} /\ dbStore'.error # "")
       => SameStore(dbStore', dbStore)]_vars

-----------------------------------------------------------------------------
(* the day of a date and time as one number that grows with the date       *)
DayNumber(d) == (d.y * 12 + d.m) * 31 + d.d

(* C29: at every refresh, get_overdue_invoices returns an invoice exactly  *)
(* when its is_overdue is true, which is exactly when its status is Sent   *)
(* and its due date is strictly before today; the overdue count is the     *)
(* number of these and never above the count of Sent invoices              *)
C29_OverdueDefinitionsAgree ==
    odOp = "refresh_data" =>
        /\ \A id \in 1..Len(odInvoices) :
              /\ (id \in odQuery.overdue) = odQuery.flags[id]
              /\ odQuery.flags[id]
                     = (/\ odInvoices[id].status = "Sent"
                        /\ DayNumber(odInvoices[id].due_date) < DayNumber(odQuery.today))
        /\ odQuery.stats.overdue_invoices = Cardinality(odQuery.overdue)
        /\ odQuery.stats.overdue_invoices <= odQuery.stats.sent_invoices

(* on 2024-02-01: a Sent invoice due the day before is overdue, a Sent     *)
(* invoice due that evening is not                                         *)
C29_Witness ==
    /\ odOp = "refresh_data"
    /\ odQuery.today = Day(2024, 2, 1)
    /\ Len(odInvoices) = 2
    /\ odInvoices[1] = [status |-> "Sent", due_date |-> DateTime(2024, 1, 31, 0, 0, 0)]
    /\ odInvoices[2] = [status |-> "Sent", due_date |-> DateTime(2024, 2, 1, 23, 59, 59)]
    /\ odQuery.overdue = {1}
    /\ odQuery.stats = [sent_invoices |-> 2, overdue_invoices |-> 1]

-----------------------------------------------------------------------------
(* the date the due date is counted from: the invoice date, or the         *)
(* current date when there is none                                         *)
TermsStart ==
    IF termsInput.invoice_date = NoneVal THEN termsInput.now
    ELSE termsInput.invoice_date

(* both functions have been called on the form's date and terms            *)
BothCalled == termsVerdict.called /\ termsDue.called

====
